---- MODULE Spec2Model ----
(***************************************************************************)
(* Model of the log-viewer server (src/lib/logs.ts as bundled in           *)
(* src/src/frontend.tsx, src/index.ts as bundled in                        *)
(* src/ecosystem.config.js, src/lib/auth.ts in src/unnamed/part_005).      *)
(*                                                                         *)
(* A log file is a sequence of runs; a run is n consecutive lines of the   *)
(* same kind, time and length.  Every line is followed by one newline      *)
(* byte, except possibly the last line of the file (nl = FALSE).  A line   *)
(* of kind "rec" is a JSON object with a parseable time; "junk" is a       *)
(* non-blank line that is not JSON; "blank" is whitespace.                 *)
(* Times are integers (milliseconds since the epoch).  A piece of a "rec"  *)
(* line that is cut by a read window is not well-formed JSON, so it        *)
(* parses like "junk".                                                     *)
(***************************************************************************)
EXTENDS Integers, Sequences, FiniteSets, TLC

VARIABLES
  file,     \* the log file
  target,   \* locator: targetDate
  low,      \* locator: low
  high,     \* locator: high
  pc,       \* locator: "bs" in the binary search, "done" after the scan
  res,      \* locator: the value returned
  iterations, \* locator: iterations
  cache,    \* offsetCache
  last,     \* the last streamLogs call: its filter and what it did
  now,      \* the clock (new Date()), in ms
  tfilter,  \* tailLogs: filter
  subs,     \* the other subscriptions of tailLogs: their local variables
  watcher,  \* tailLogs: how far startWatching is, and the state of the watcher
  lastSize, \* tailLogs: lastSize
  buffer,   \* tailLogs: buffer, as the fragments of lines it is made of
  aborted,  \* tailLogs: aborted
  calls,    \* tailLogs: the calls of readNewContent that have not returned
  events,   \* change events of fs.watch that have not been handed over yet
  delivered,\* tailLogs: the entries passed to onEntry, in order
  hist,     \* what happened to the file since the subscription
  PASSWORD, \* auth: the configured secret, "" when there is none
  req,      \* the HTTP request being served: its pwd and its query parameters
  resp,     \* the responses given to the request, by route
  conn,     \* /api/logs/stream: the state of the connection
  out,      \* /api/logs/stream: what was enqueued to the controller
  collected,\* the client's pages of /api/logs so far
  page,     \* GET /: the state of createAppStream and of the background reader
  hook,     \* useLogs: the state of the hook and of its EventSource
  running,  \* the calls of findOffsetForDate on the file: their local variables
  returned, \* the values that the calls of findOffsetForDate have returned
  streams,  \* the calls of streamLogs under way: their local variables
  sample    \* a call of a pure function: its arguments and its value

locVars == <<target, low, high, pc, res, iterations>>
tailVars == <<subs, tfilter, watcher, lastSize, buffer, aborted, calls, events,
              delivered, hist>>
httpVars == <<PASSWORD, req, resp, conn, out, collected, page, hook>>
callVars == <<running, returned, streams>>
fnVars == <<sample>>
vars == <<file, locVars, cache, last, now, tailVars, httpVars, callVars,
          fnVars>>

Min(a, b) == IF a < b THEN a ELSE b
Max(a, b) == IF a > b THEN a ELSE b

(***************************************************************************)
(* Program constants of findOffsetForDate and streamLogs.                  *)
(***************************************************************************)
BsWindow == 65536
ProbeSize == 4096
LargerProbeSize == 4194304
ScanWindow == 262144
CacheWindow == 3600000
LocatorThreshold == 1048576

None == -1

(***************************************************************************)
(* The file as bytes: sizes, and the line that holds a byte position.      *)
(***************************************************************************)
RunBytes(r) == r.n * (r.len + 1)

RECURSIVE RunBase(_, _)
RunBase(rs, i) == IF i = 1 THEN 0 ELSE RunBase(rs, i - 1) + RunBytes(rs[i - 1])

Size(F) ==
  IF Len(F.runs) = 0 THEN 0
  ELSE RunBase(F.runs, Len(F.runs) + 1) - (IF F.nl THEN 0 ELSE 1)

RunOf(F, p) ==
  CHOOSE i \in 1..Len(F.runs) :
    RunBase(F.runs, i) <= p /\ p < RunBase(F.runs, i + 1)

\* The line whose bytes (newline included) contain position p, 0 <= p < Size(F):
\* it is line k (from 0) of run i, which starts at byte base.
LineOfRun(F, i, base, k) ==
  [start |-> base + k * (F.runs[i].len + 1), len |-> F.runs[i].len,
   kind |-> F.runs[i].kind, time |-> F.runs[i].time,
   hasNl |-> (F.nl \/ i < Len(F.runs) \/ k < F.runs[i].n - 1),
   run |-> i, idx |-> k]

LineInRun(F, p, i, base) ==
  LineOfRun(F, i, base, (p - base) \div (F.runs[i].len + 1))

LineInRunAt(F, p, i) == LineInRun(F, p, i, RunBase(F.runs, i))

LineAt(F, p) == LineInRunAt(F, p, RunOf(F, p))

\* chunk.indexOf('\n') for chunk = file.slice(a, b): the absolute position of
\* the first newline byte in [a, b), or -1.
NewlineIn(F, a, b) ==
  IF a >= b THEN -1
  ELSE LET ln == LineAt(F, a)
           e == ln.start + ln.len
       IN IF ln.hasNl /\ e < b THEN e ELSE -1

\* One element of chunk.split('\n') for a chunk that ends at b: the piece that
\* starts at byte q.  term says that the piece is ended by a newline inside
\* the chunk (so split yields a further piece after it).
EmptyPiece == [kind |-> "blank", time |-> 0, len |-> 0, term |-> FALSE]

PieceOfLine(ln, q, b) ==
  [kind |-> IF Min(ln.start + ln.len, b) = q \/ ln.kind = "blank" THEN "blank"
            ELSE IF ln.kind = "rec" /\ q = ln.start /\ ln.start + ln.len <= b
              THEN "rec"
            ELSE "junk",
   time |-> ln.time, len |-> Min(ln.start + ln.len, b) - q,
   term |-> (ln.hasNl /\ ln.start + ln.len < b)]

PieceAt(F, q, b) ==
  IF q >= b THEN EmptyPiece ELSE PieceOfLine(LineAt(F, q), q, b)

\* The text of a line as far as the program compares it.
LineText(p) == [kind |-> p.kind, time |-> p.time, len |-> p.len]
NoLine == [kind |-> "blank", time |-> 0, len |-> 0]

(***************************************************************************)
(* findOffsetForDate: one iteration of the binary-search loop.             *)
(***************************************************************************)
\* compareDates(a, b) < 0
DateBefore(a, b) == a < b

\* for (const searchLine of remainingChunk.split('\n').slice(1)): q is where
\* the piece under the cursor starts, so is searchOffset before the piece.
RECURSIVE SearchLoop(_, _, _, _)
SearchLoop(F, q, b, so) ==
  LET p == PieceAt(F, q, b)
      so2 == so + p.len + 1
  IN IF p.kind = "rec"
       THEN [found |-> TRUE, time |-> p.time, searchOffset |-> so2]
     ELSE IF p.term THEN SearchLoop(F, q + p.len + 1, b, so2)
     ELSE [found |-> FALSE, time |-> 0, searchOffset |-> so2]

\* The probe had no newline: retry with the enlarged probe.
BsLargerProbe(F, tgt, lo, hi, mid, chunkSize) ==
  LET largerChunkSize == Min(LargerProbeSize, Size(F) - mid)
      b2 == mid + largerChunkSize
      largerNewlinePos == IF largerChunkSize > chunkSize
                            THEN NewlineIn(F, mid, b2) ELSE -1
      p == PieceAt(F, largerNewlinePos + 1, b2)
  IN IF largerNewlinePos # -1 /\ p.kind = "rec"
       THEN IF DateBefore(p.time, tgt)
              THEN [low |-> largerNewlinePos + 1 + p.len + 1, high |-> hi]
              ELSE [low |-> lo, high |-> mid]
       ELSE [low |-> lo, high |-> mid]

\* BsSearchChunk that leaves low and high alone when the probe has no strict
\* record.
BsSearchChunkStay(F, tgt, lo, hi, mid, chunkSize, newlinePos, p) ==
  LET s == IF p.term
             THEN SearchLoop(F, newlinePos + 1 + p.len + 1, mid + chunkSize,
                             newlinePos + 1)
             ELSE [found |-> FALSE, time |-> 0, searchOffset |-> 0]
  IN IF s.found
       THEN IF DateBefore(s.time, tgt)
              THEN [low |-> s.searchOffset, high |-> hi]
              ELSE [low |-> lo, high |-> mid]
       ELSE [low |-> lo, high |-> hi]

\* The candidate line is not a strict record: look further in the probe.
BsSearchChunk(F, tgt, lo, hi, mid, chunkSize, newlinePos, p) ==
  LET s == IF p.term
             THEN SearchLoop(F, newlinePos + 1 + p.len + 1, mid + chunkSize,
                             newlinePos + 1)
             ELSE [found |-> FALSE, time |-> 0, searchOffset |-> 0]
  IN IF s.found
       THEN IF DateBefore(s.time, tgt)
              THEN [low |-> s.searchOffset, high |-> hi]
              ELSE [low |-> lo, high |-> mid]
       ELSE [low |-> mid + chunkSize, high |-> hi]

BsNext(F, tgt, lo, hi) ==
  LET mid == (lo + hi) \div 2
      chunkSize == Min(ProbeSize, Size(F) - mid)
      newlinePos == NewlineIn(F, mid, mid + chunkSize)
      p == PieceAt(F, newlinePos + 1, mid + chunkSize)
  IN IF newlinePos = -1 THEN BsLargerProbe(F, tgt, lo, hi, mid, chunkSize)
     ELSE IF p.kind = "blank" THEN [low |-> lo, high |-> mid]
     ELSE IF p.kind = "junk"
       THEN BsSearchChunk(F, tgt, lo, hi, mid, chunkSize, newlinePos, p)
     ELSE IF DateBefore(p.time, tgt) THEN [low |-> newlinePos + 1, high |-> hi]
     ELSE [low |-> lo, high |-> mid]

(***************************************************************************)
(* findOffsetForDate: the linear scan from low.  q is where the line under *)
(* the cursor starts, off is the program's offset variable.  Lines of one  *)
(* run have the same text, so the loop steps over all the lines of the run *)
(* that end inside the chunk at once.                                      *)
(***************************************************************************)
NotFound(lo) == [offset |-> lo, found |-> FALSE, line |-> NoLine, pos |-> -1]

RECURSIVE ScanLoop(_, _, _, _, _, _)
ScanLoop(F, q, b, off, tgt, lo) ==
  LET p == PieceAt(F, q, b)
  IN IF p.kind = "rec" /\ ~DateBefore(p.time, tgt)
       THEN [offset |-> off, found |-> TRUE, line |-> LineText(p), pos |-> q]
     ELSE IF ~p.term THEN NotFound(lo)
     ELSE LET ln == LineAt(F, q)
              r == F.runs[ln.run]
              cnt == Min(r.n - ln.idx, (b - q) \div (r.len + 1))
          IN ScanLoop(F, q + cnt * (r.len + 1), b, off + cnt * (r.len + 1),
                      tgt, lo)

ConfirmScan(F, tgt, lo) ==
  LET scanSize == Min(ScanWindow, Size(F) - lo)
      b == lo + scanSize
      first == PieceAt(F, lo, b)
      offset == IF lo > 0 /\ first.len > 0 THEN lo + first.len + 1 ELSE lo
  IN IF lo = 0 THEN ScanLoop(F, 0, b, lo, tgt, lo)
     ELSE IF first.term THEN ScanLoop(F, lo + first.len + 1, b, offset, tgt, lo)
     ELSE NotFound(lo)

\* The whole of findOffsetForDate on an unchanged file.
RECURSIVE BsLoop(_, _, _, _)
BsLoop(F, tgt, lo, hi) ==
  IF hi - lo > BsWindow
    THEN LET n == BsNext(F, tgt, lo, hi) IN BsLoop(F, tgt, n.low, n.high)
    ELSE lo

findOffsetForDate(F, tgt) == ConfirmScan(F, tgt, BsLoop(F, tgt, 0, Size(F)))

(***************************************************************************)
(* filterLog.  An entry has a level, a module ("" when it has none) and a  *)
(* time (None when the time string does not parse).  A filter has from, to *)
(* and limit (None when absent) and the level and module sets (empty when  *)
(* absent or empty).                                                       *)
(***************************************************************************)
\* filterLog without the check of the upper time bound.
filterLogNoTo(entry, filter) ==
  /\ (filter.level # {} => entry.level \in filter.level)
  /\ (filter.module # {} => (entry.module # "" /\ entry.module \in filter.module))
  /\ ((filter.from # None \/ filter.to # None) =>
        /\ entry.time # None
        /\ ~(filter.from # None /\ entry.time < filter.from))

\* filterLog without the filter by module.
filterLogNoModule(entry, filter) ==
  /\ (filter.level # {} => entry.level \in filter.level)
  /\ ((filter.from # None \/ filter.to # None) =>
        /\ entry.time # None
        /\ ~(filter.from # None /\ entry.time < filter.from)
        /\ ~(filter.to # None /\ entry.time > filter.to))

filterLog(entry, filter) ==
  /\ (filter.level # {} => entry.level \in filter.level)
  /\ (filter.module # {} => (entry.module # "" /\ entry.module \in filter.module))
  /\ ((filter.from # None \/ filter.to # None) =>
        /\ entry.time # None
        /\ ~(filter.from # None /\ entry.time < filter.from)
        /\ ~(filter.to # None /\ entry.time > filter.to))

\* The record that parseLogLineStrict returns for a line of kind "rec".
EntryOf(p) == [level |-> "info", module |-> "test", time |-> p.time]

(***************************************************************************)
(* streamLogs: the chunk loop.  The reader hands the bytes from the start  *)
(* offset on in chunks of cs bytes.  st is [emitted, count, lastNl, past,   *)
(* read]: the records passed to onEntry, as segments of consecutive lines, *)
(* count, the newline byte of the last line passed to onEntry, the newline *)
(* byte of the first line at which the loop over the lines stopped for the *)
(* upper time bound, and the byte up to which the reader has read.         *)
(***************************************************************************)
\* onEntry for k consecutive lines of the same text, the first at byte q.
Emit(emitted, q, p, k) ==
  LET m == Len(emitted)
      seg == [pos |-> q, len |-> p.len, time |-> p.time, n |-> k]
  IN IF m > 0 /\ emitted[m].len = p.len /\ emitted[m].time = p.time
          /\ emitted[m].pos + emitted[m].n * (p.len + 1) = q
       THEN [emitted EXCEPT ![m].n = @ + k]
       ELSE Append(emitted, seg)

\* for (const line of lines): the lines from byte q on whose newline has
\* been read, that is, lies before b.
RECURSIVE LineLoop(_, _, _, _, _)
LineLoop(F, q, b, filter, st) ==
  IF q >= b THEN st
  ELSE
    LET p == PieceAt(F, q, Size(F))
        ln == LineAt(F, q)
        whole == q = ln.start
        cnt == IF whole
                 THEN Min(F.runs[ln.run].n - ln.idx, (b - q) \div (p.len + 1))
                 ELSE 1
    IN IF ~p.term \/ q + p.len >= b THEN st
       ELSE IF filter.limit # None /\ st.count >= filter.limit THEN st
       ELSE IF p.kind = "rec" /\ filterLog(EntryOf(p), filter)
         THEN LET k == IF filter.limit = None THEN cnt
                       ELSE Min(cnt, filter.limit - st.count)
              IN LineLoop(F, q + k * (p.len + 1), b, filter,
                          [st EXCEPT !.emitted = Emit(st.emitted, q, p, k),
                                     !.count = st.count + k,
                                     !.lastNl = q + k * (p.len + 1) - 1])
       ELSE IF p.kind = "rec" /\ filter.to # None /\ p.time > filter.to
         THEN IF st.past = None THEN [st EXCEPT !.past = q + p.len] ELSE st
       ELSE LineLoop(F, q + cnt * (p.len + 1), b, filter, st)

\* buffer = lines.pop(): where the unfinished line starts once the bytes
\* before b have been read by a reader that started at s0.
CarryStart(F, b, s0) ==
  IF b <= s0 THEN s0
  ELSE LET ln == LineAt(F, b - 1)
       IN IF ln.hasNl /\ ln.start + ln.len = b - 1 THEN b
          ELSE Max(ln.start, s0)

\* Process remaining buffer.
FinalCarry(F, q, filter, st) ==
  LET p == PieceAt(F, q, Size(F))
  IN IF (filter.limit = None \/ st.count < filter.limit)
          /\ p.kind = "rec" /\ filterLog(EntryOf(p), filter)
       THEN [st EXCEPT !.emitted = Emit(st.emitted, q, p, 1)]
       ELSE st

\* The end of the chunk that holds byte x, for a reader that started at s0
\* and gets cs bytes at a time.
ChunkEnd(F, s0, cs, x) == Min(s0 + ((x - s0) \div cs + 1) * cs, Size(F))

\* The last newline byte of the run that holds byte q.
LastNewlineOfRun(F, q) ==
  LET ln == LineAt(F, q)
      e == RunBase(F.runs, ln.run + 1) - 1
  IN IF F.nl \/ ln.run < Len(F.runs) THEN e ELSE e - (ln.len + 1)

\* The chunk loop without the exit on the limit after a chunk.
RECURSIVE ChunkLoopNoLimitBreak(_, _, _, _, _, _)
ChunkLoopNoLimitBreak(F, s0, a, cs, filter, st) ==
  IF a >= Size(F)
    THEN FinalCarry(F, CarryStart(F, Size(F), s0), filter,
                    [st EXCEPT !.read = Max(s0, Size(F))])
  ELSE LET q == CarryStart(F, a, s0)
           b == ChunkEnd(F, s0, cs, Max(a, LastNewlineOfRun(F, q)))
       IN ChunkLoopNoLimitBreak(F, s0, b, cs, filter,
                                LineLoop(F, q, b, filter, st))

\* while (true) { read a chunk; ... }: a is where the next chunk starts.
\* The chunks up to the one that holds the last newline of the run under the
\* cursor are taken in one step: the lines of a run are alike, so the only
\* line loop whose break can skip lines of another kind is the last one.
RECURSIVE ChunkLoop(_, _, _, _, _, _)
ChunkLoop(F, s0, a, cs, filter, st) ==
  IF a >= Size(F)
    THEN FinalCarry(F, CarryStart(F, Size(F), s0), filter,
                    [st EXCEPT !.read = Max(s0, Size(F))])
  ELSE LET q == CarryStart(F, a, s0)
           b == ChunkEnd(F, s0, cs, Max(a, LastNewlineOfRun(F, q)))
           st2 == LineLoop(F, q, b, filter, st)
       IN IF filter.limit # None /\ st2.count >= filter.limit
            THEN [st2 EXCEPT !.read = ChunkEnd(F, s0, cs, st2.lastNl)]
          ELSE ChunkLoop(F, s0, b, cs, filter, st2)

\* The chunk loop of a reader that starts at byte s0.
StreamRun(F, s0, cs, filter) ==
  ChunkLoop(F, s0, s0, cs, filter,
            [emitted |-> <<>>, count |-> 0, lastNl |-> None, past |-> None,
             read |-> s0])

StreamFrom(F, s0, cs, filter) == StreamRun(F, s0, cs, filter).emitted

(***************************************************************************)
(* streamLogs: the offset cache and the choice of the start offset.        *)
(***************************************************************************)
NoCache == [fromTimestamp |-> None, byteOffset |-> 0, validationLine |-> NoLine,
            fileSize |-> 0]

\* isCacheValidForDate without the upper end of the window.
isCacheValidNoWindow(c, fromDate) == fromDate - c.fromTimestamp >= 0

isCacheValidForDate(c, fromDate) ==
  LET timeDiff == fromDate - c.fromTimestamp
  IN timeDiff >= 0 /\ timeDiff < CacheWindow

\* What streamLogs(filter, onEntry) does on file F with the cache slot c:
\* the start offset, the new cache slot and the records passed to onEntry.
streamLogs(F, c, cs, filter) ==
  LET fileSize == Size(F)
      checked == /\ filter.from # None
                 /\ c # NoCache
                 /\ c.fileSize <= fileSize
                 /\ isCacheValidForDate(c, filter.from)
      firstLine == LineText(PieceAt(F, c.byteOffset,
                     Min(c.byteOffset + c.validationLine.len + 100, fileSize)))
      cacheHit == checked /\ firstLine = c.validationLine
      c1 == IF checked /\ ~cacheHit THEN NoCache ELSE c
      search == filter.from # None /\ ~cacheHit /\ fileSize > LocatorThreshold
      loc == findOffsetForDate(F, filter.from)
      startOffset == IF cacheHit THEN c.byteOffset
                     ELSE IF search THEN loc.offset ELSE 0
      c2 == IF search /\ loc.found
              THEN [fromTimestamp |-> filter.from, byteOffset |-> loc.offset,
                    validationLine |-> loc.line, fileSize |-> fileSize]
              ELSE c1
  IN [startOffset |-> startOffset, cacheHit |-> cacheHit, search |-> search,
      cache |-> c2, emitted |-> StreamFrom(F, startOffset, cs, filter)]

\* The value of last before any request.
NoReq == [filter |-> [from |-> None, to |-> None, limit |-> None,
                      level |-> {}, module |-> {}],
          startOffset |-> 0, cacheHit |-> FALSE, search |-> FALSE,
          emitted |-> <<>>, done |-> FALSE]

\* The values of the variables of the parts that are not running.
MaxCalls == 2
NoCall == [phase |-> "none", currentSize |-> 0, from |-> 0, content |-> <<>>]
\* pending: the bytes at the end of the file that the logger has not written
\* yet; carried: the calls of readNewContent that left a piece in the buffer.
NoHist == [rot |-> 0, mark |-> 0, app |-> <<>>, quiet |-> TRUE, appends |-> 0,
           pending |-> 0, carried |-> 0,
           errors |-> 0]
NoFilter == [from |-> None, to |-> None, limit |-> None,
             level |-> {}, module |-> {}]
LocIdle ==
  /\ target = 0 /\ low = 0 /\ high = 0 /\ pc = "idle" /\ res = NotFound(0)
  /\ iterations = 0
\* No call of findOffsetForDate has been made.
MaxLocCalls == 2
NoLocCall == [low |-> 0, high |-> 0, pc |-> "idle", res |-> NotFound(0),
              n |-> 0, mixed |-> FALSE]
MaxStreams == 2
NoStream == [pc |-> "idle", from |-> None, fileSize |-> 0, readAt |-> 0,
             readEnd |-> 0, startOffset |-> 0, cacheHit |-> FALSE]
CallIdle ==
  /\ running = [i \in 1..MaxLocCalls |-> NoLocCall] /\ returned = {}
  /\ streams = [i \in 1..MaxStreams |-> NoStream]
\* No pure function has been called.
NoSample == [fn |-> "none"]
FnIdle == sample = NoSample
\* A call of tailLogs that has not been made: its lastSize, buffer, aborted
\* and watcher, the change events it has yet to handle and the entries it
\* has passed to onEntry.
NoSub == [watcher |-> "none", lastSize |-> 0, buffer |-> <<>>,
          aborted |-> FALSE, events |-> 0, delivered |-> <<>>]
NoSubs == [b |-> NoSub, c |-> NoSub]
TailIdle ==
  /\ subs = NoSubs
  /\ tfilter = NoFilter /\ lastSize = 0 /\ buffer = <<>> /\ aborted = FALSE
  /\ watcher = "none"
  /\ calls = [i \in 1..MaxCalls |-> NoCall] /\ events = 0
  /\ delivered = <<>> /\ hist = NoHist
Routes == {"/", "/api/logs", "/api/logs/raw", "/api/logs/stream"}
NoResp == [done |-> FALSE, status |-> 0, body |-> "", logs |-> <<>>,
           count |-> 0, total |-> 0, hasMore |-> FALSE]
\* cancelAt: the end of the chunk streamLogs was reading when cancel() was
\* called; readTo: the byte streamLogs has read to when it returns; chunk:
\* the size of its chunks.
NoConn == [phase |-> "none", cancelled |-> FALSE, cleanup |-> FALSE,
           historicalCount |-> 0, failed |-> FALSE, tailed |-> 0,
           cancelAt |-> None, readTo |-> None, chunk |-> 0]
\* createAppStream's controller, shellSent and logCount, what was written to
\* the controller (doc), whether it was closed, and the background reader:
\* where it is, the entries it has yet to pass to the sink, and its count.
NoPage == [controller |-> FALSE, shellSent |-> FALSE, logCount |-> 0,
           doc |-> <<>>, closed |-> FALSE, reader |-> "none", todo |-> 0,
           count |-> 0, threw |-> FALSE]

\* useLogs: the EventSource (es), the state set by the hook, the locals of
\* the effect, how many error events were handled and how many connections
\* were opened.
NoHook == [es |-> "none", loading |-> FALSE, streaming |-> FALSE,
           error |-> "", logs |-> 0, historicalDone |-> FALSE,
           intentionallyClosed |-> FALSE, hasLimit |-> FALSE,
           errors |-> 0, opened |-> 0]

HttpIdle ==
  /\ PASSWORD = "" /\ req = [pwd |-> "", filter |-> NoFilter, offset |-> None]
  /\ resp = [e \in Routes |-> NoResp] /\ conn = NoConn /\ out = <<>>
  /\ collected = <<>>
  /\ page = NoPage /\ hook = NoHook

(***************************************************************************)
(* Files and targets the locator is run on.                                *)
(***************************************************************************)
MaxRuns == 3
MaxTime == 2

\* Instants in ms; half the cache window apart, so that two from bounds can
\* lie inside the window or outside it.
Tick == CacheWindow \div 2
Times == {k * Tick : k \in 1..MaxTime}
Targets == {k * Tick : k \in 0..(MaxTime + 1)}
\* Line lengths and run lengths: a short line, a run of short lines longer
\* than the binary-search window, a run of lines longer than the probe, and a
\* line longer than the scan window.
RunShapes ==
  {[len |-> 150, n |-> 1], [len |-> 150, n |-> 2], [len |-> 150, n |-> 500],
   [len |-> 5000, n |-> 300], [len |-> 300000, n |-> 1]}

RunChoices ==
  {[kind |-> "rec", time |-> t, len |-> s.len, n |-> s.n] :
     t \in Times, s \in RunShapes}
    \cup {[kind |-> "junk", time |-> 0, len |-> s.len, n |-> s.n] :
            s \in RunShapes}
    \cup {[kind |-> "blank", time |-> 0, len |-> 0, n |-> k] : k \in {1, 2}}

RunSeqs(k) == UNION {[1..m -> RunChoices] : m \in 0..k}

Files(k) ==
  {[runs |-> rs, nl |-> e] : rs \in RunSeqs(k), e \in {TRUE}}
    \cup {[runs |-> rs, nl |-> FALSE] :
            rs \in {x \in RunSeqs(k) : Len(x) > 0 /\ x[Len(x)].len > 0}}

\* The strict records are in non-decreasing time order.
Sorted(F) ==
  \A i, j \in 1..Len(F.runs) :
    (i < j /\ F.runs[i].kind = "rec" /\ F.runs[j].kind = "rec")
      => F.runs[i].time <= F.runs[j].time

\* Where the first strict record with time >= tgt starts, or -1.
FirstMatchPos(F, tgt) ==
  LET hits == {i \in 1..Len(F.runs) :
                 F.runs[i].kind = "rec" /\ F.runs[i].time >= tgt}
  IN IF hits = {} THEN -1
     ELSE RunBase(F.runs, CHOOSE i \in hits : \A j \in hits : i <= j)

(***************************************************************************)
(* The locator as a process: one action per loop iteration, one for the    *)
(* scan.                                                                   *)
(***************************************************************************)
LocInit ==
  /\ file \in Files(MaxRuns)
  /\ target \in Targets
  /\ low = 0
  /\ high = Size(file)
  /\ pc = "bs"
  /\ res = NotFound(0)
  /\ iterations = 0
  /\ cache = NoCache
  /\ last = NoReq
  /\ now = 0
  /\ TailIdle
  /\ HttpIdle
  /\ CallIdle
  /\ FnIdle

BsStep ==
  /\ pc = "bs"
  /\ high - low > BsWindow
  /\ LET n == BsNext(file, target, low, high)
     IN low' = n.low /\ high' = n.high
  /\ iterations' = iterations + 1
  /\ UNCHANGED <<file, target, pc, res, cache, last, now, tailVars, httpVars,
                 callVars, fnVars>>

LinearScan ==
  /\ pc = "bs"
  /\ high - low <= BsWindow
  /\ res' = ConfirmScan(file, target, low)
  /\ pc' = "done"
  /\ UNCHANGED <<file, target, low, high, iterations, cache, last, now, tailVars,
                 httpVars,
                 callVars, fnVars>>

LocNext == BsStep \/ LinearScan

LocSpec == LocInit /\ [][LocNext]_vars

(***************************************************************************)
(* streamLogs requests, one after the other, on a file that only grows.    *)
(***************************************************************************)
MaxLimit == 1

ChunkSizes == {65536, 262144}
Limits == {None} \cup 1..MaxLimit
Filters ==
  [from : Targets \cup {None}, to : Times \cup {None}, limit : Limits,
   level : {{}}, module : {{}}]

\* The files of the requests are made of the long runs and the long lines,
\* so that most of them are above the locator threshold.
StreamRuns == {r \in RunChoices : r.n * r.len >= 300000}

StreamFiles ==
  {[runs |-> rs, nl |-> TRUE] :
     rs \in UNION {[1..m -> StreamRuns] : m \in 0..MaxRuns}}

StreamInit ==
  /\ file \in StreamFiles
  /\ cache = NoCache
  /\ last = NoReq
  /\ LocIdle
  /\ CallIdle
  /\ FnIdle
  /\ now = 0
  /\ TailIdle
  /\ HttpIdle

\* One call of streamLogs, from its first line to its return.
Request ==
  /\ pc = "idle"
  /\ \E filter \in Filters, cs \in ChunkSizes :
       \E r \in {streamLogs(file, cache, cs, filter)} :
          /\ cache' = r.cache
          /\ last' = [filter |-> filter, startOffset |-> r.startOffset,
                      cacheHit |-> r.cacheHit, search |-> r.search,
                      emitted |-> r.emitted, done |-> TRUE]
  /\ pc' = "returned"
  /\ UNCHANGED <<file, target, low, high, res, iterations, now, tailVars, httpVars,
                 callVars, fnVars>>

\* The caller is done with what the call passed to it.
Return ==
  /\ pc = "returned"
  /\ pc' = "idle"
  /\ last' = NoReq
  /\ UNCHANGED <<file, cache, target, low, high, res, iterations, now, tailVars,
                 httpVars,
                 callVars, fnVars>>

\* The logger appends lines to the file.
AppendLines ==
  /\ pc = "idle"
  /\ Len(file.runs) < MaxRuns
  /\ \E r \in StreamRuns : file' = [file EXCEPT !.runs = Append(@, r)]
  /\ UNCHANGED <<cache, last, locVars, callVars, fnVars, now, tailVars, httpVars>>

StreamNext == Request \/ Return \/ AppendLines

StreamSpec == StreamInit /\ [][StreamNext]_vars

(***************************************************************************)
(* parseLogLine, and the text that tailLogs reads and splits.  A fragment  *)
(* is a piece of one line: n bytes from byte off of a line of the given    *)
(* kind, time and length.                                                  *)
(***************************************************************************)
EmptyFrag ==
  [kind |-> "blank", time |-> 0, len |-> 0, off |-> 0, n |-> 0, torn |-> FALSE]

\* A line longer than MbAt + 1 bytes holds a two-byte character in its
\* message, at bytes MbAt and MbAt + 1 of the line.
MbAt == 5

\* slice.text() decodes the bytes of one slice on their own: a slice that
\* ends after the first byte of a character, or starts at its second byte,
\* gets U+FFFD in place of that byte (torn).
FragOfLine(ln, q, b) ==
  LET off == q - ln.start
      n == Min(ln.start + ln.len, b) - q
  IN [kind |-> ln.kind, time |-> ln.time, len |-> ln.len, off |-> off, n |-> n,
      torn |-> /\ ln.len > MbAt + 1
               /\ n > 0
               /\ off = MbAt + 1 \/ off + n = MbAt + 1]

\* file.slice(a, b).text().split('\n'), from byte q on.
RECURSIVE SplitFrom(_, _, _)
SplitFrom(F, q, b) ==
  IF q >= b THEN <<EmptyFrag>>
  ELSE LET ln == LineAt(F, q)
       IN IF ln.hasNl /\ ln.start + ln.len < b
            THEN <<FragOfLine(ln, q, b)>> \o SplitFrom(F, ln.start + ln.len + 1, b)
            ELSE <<FragOfLine(ln, q, b)>>

RECURSIVE FragBytes(_)
FragBytes(fs) == IF fs = <<>> THEN 0 ELSE Head(fs).n + FragBytes(Tail(fs))

\* The text made of the fragments fs, one after the other.
JoinFrags(fs) ==
  LET g == SelectSeq(fs, LAMBDA f : f.n > 0)
      m == Len(g)
  IN IF \A i \in 1..m : g[i].kind = "blank" THEN NoLine
     ELSE IF /\ \A i \in 1..m : LineText(g[i]) = LineText(g[1])
             /\ g[1].off = 0
             /\ g[m].off + g[m].n = g[m].len
             /\ \A i \in 1..(m - 1) : g[i].off + g[i].n = g[i + 1].off
       THEN IF g[1].kind = "rec" /\ \E i \in 1..m : g[i].torn
              THEN [kind |-> "torn", time |-> g[1].time, len |-> g[1].len]
              ELSE LineText(g[1])
     ELSE [kind |-> "junk", time |-> 0, len |-> FragBytes(g)]

\* parseLogLine(line): no entry for a blank line, the parsed object for a
\* record (a record with U+FFFD inside its message still parses: kind
\* "torn"), and a raw entry stamped with the clock for any other text.
parseLogLine(t, clock) ==
  IF t.kind = "blank" THEN [ok |-> FALSE, entry |-> EntryOf(t), text |-> t]
  ELSE IF t.kind \in {"rec", "torn"}
    THEN [ok |-> TRUE, entry |-> EntryOf(t), text |-> t]
  ELSE [ok |-> TRUE,
        entry |-> [level |-> "info", module |-> "", time |-> clock],
        text |-> [kind |-> "raw", time |-> clock, len |-> t.len]]

(***************************************************************************)
(* tailLogs: readNewContent, one action per await.                         *)
(***************************************************************************)
\* The lines without what the buffer held.
BufferLinesNoCarry(buf, content) ==
  [i \in 1..Len(content) |-> <<content[i]>>]

\* lines = buffer.split('\n') after buffer += newContent: the fragments of
\* each line, the last element being what lines.pop() takes.
BufferLines(buf, content) ==
  [i \in 1..Len(content) |-> IF i = 1 THEN buf \o <<content[1]>>
                             ELSE <<content[i]>>]

\* for (const line of lines) { ... onEntry(entry) }
RECURSIVE DeliverLines(_, _, _, _, _)
DeliverLines(lines, i, filter, clock, acc) ==
  IF i >= Len(lines) THEN acc
  ELSE LET e == parseLogLine(JoinFrags(lines[i]), clock)
       IN DeliverLines(lines, i + 1, filter, clock,
            IF e.ok /\ filterLog(e.entry, filter) THEN Append(acc, e.text)
            ELSE acc)

\* buffer = lines.pop() || ''
PopBuffer(lines) ==
  SelectSeq(lines[Len(lines)], LAMBDA f : f.n > 0)

Quiescent == events = 0 /\ \A i \in 1..MaxCalls : calls[i].phase = "none"

(***************************************************************************)
(* A tailLogs subscription on a file that is appended to and truncated.    *)
(***************************************************************************)
MaxEvents == 2
MaxAppends == 2
MaxRotations == 1
MaxErrors == 2

TailLines ==
  {[kind |-> "rec", time |-> t, len |-> l, n |-> 1] :
     t \in Times, l \in {10, 30}}
    \cup {[kind |-> "junk", time |-> 0, len |-> 10, n |-> 1]}

TailFiles ==
  {[runs |-> rs, nl |-> TRUE] : rs \in UNION {[1..m -> TailLines] : m \in 1..2}}

TailFilters == {NoFilter, [NoFilter EXCEPT !.from = MaxTime * Tick]}

\* The state once startWatching() has registered the watcher: init() has
\* read the size of the file.
TailInit ==
  /\ file \in TailFiles
  /\ tfilter \in TailFilters
  /\ subs = NoSubs
  /\ watcher = "open"
  /\ now \in {Tick, (MaxTime + 1) * Tick}
  /\ lastSize = Size(file)
  /\ buffer = <<>>
  /\ aborted = FALSE
  /\ calls = [i \in 1..MaxCalls |-> NoCall]
  /\ events = 0
  /\ delivered = <<>>
  /\ hist = NoHist
  /\ cache = NoCache /\ last = NoReq /\ LocIdle
  /\ CallIdle
  /\ FnIdle
  /\ HttpIdle

\* The logger appends one line.
TailAppend ==
  /\ hist.appends < MaxAppends
  /\ \E r \in TailLines :
       /\ file' = [file EXCEPT !.runs = Append(@, r)]
       /\ hist' = [hist EXCEPT !.appends = @ + 1,
                               !.app = IF hist.rot > 0 THEN Append(@, r) ELSE @,
                               !.quiet = @ /\ Quiescent]
  /\ events' = IF watcher = "open" THEN Min(events + 1, MaxEvents) ELSE events
  /\ UNCHANGED <<httpVars, locVars, callVars, fnVars, cache, last, now, tfilter, watcher, lastSize, buffer, aborted,
                 calls, delivered,
                 subs>>

\* Log rotation: the file is truncated to nothing.
TailTruncate ==
  /\ hist.rot < MaxRotations
  /\ file' = [runs |-> <<>>, nl |-> TRUE]
  /\ hist' = [hist EXCEPT !.rot = @ + 1, !.mark = Len(delivered),
                          !.quiet = @ /\ Quiescent]
  /\ events' = IF watcher = "open" THEN Min(events + 1, MaxEvents) ELSE events
  /\ UNCHANGED <<httpVars, locVars, callVars, fnVars, cache, last, now, tfilter, watcher, lastSize, buffer, aborted,
                 calls, delivered,
                 subs>>

\* The watcher's callback: readNewContent() up to its first await.
WatchChange ==
  /\ events > 0
  /\ ~aborted
  /\ \E i \in 1..MaxCalls :
       /\ calls[i].phase = "none"
       /\ calls' = [calls EXCEPT ![i] = [NoCall EXCEPT !.phase = "stat"]]
  /\ events' = events - 1
  /\ UNCHANGED <<httpVars, file, locVars, callVars, fnVars, cache, last, now, tfilter, watcher, lastSize, buffer,
                 aborted, delivered, hist,
                 subs>>

\* await file.exists(); await file.stat(): the size of the file is read.
TailStat ==
  /\ \E i \in 1..MaxCalls :
       /\ calls[i].phase = "stat"
       /\ calls' = [calls EXCEPT ![i].phase = "compare",
                                 ![i].currentSize = Size(file)]
  /\ UNCHANGED <<httpVars, file, locVars, callVars, fnVars, cache, last, now, tfilter, watcher, lastSize, buffer,
                 aborted, events, delivered, hist,
                 subs>>

\* if (currentSize > lastSize) { slice = file.slice(lastSize, currentSize) ...
TailCompare ==
  /\ \E i \in 1..MaxCalls :
       /\ calls[i].phase = "compare"
       /\ calls' = [calls EXCEPT ![i] =
            IF calls[i].currentSize > lastSize
              THEN [@ EXCEPT !.phase = "read", !.from = lastSize]
              ELSE NoCall]
  /\ UNCHANGED <<httpVars, file, locVars, callVars, fnVars, cache, last, now, tfilter, watcher, lastSize, buffer,
                 aborted, events, delivered, hist,
                 subs>>

\* await slice.text(): the bytes of the slice are read.
TailRead ==
  /\ \E i \in 1..MaxCalls :
       /\ calls[i].phase = "read"
       /\ calls' = [calls EXCEPT ![i].phase = "text",
            ![i].content = SplitFrom(file, calls[i].from,
                                     Min(calls[i].currentSize, Size(file)))]
  /\ UNCHANGED <<httpVars, file, locVars, callVars, fnVars, cache, last, now, tfilter, watcher, lastSize, buffer,
                 aborted, events, delivered, hist,
                 subs>>

\* buffer += newContent; ...; lastSize = currentSize
TailFinish ==
  /\ \E i \in 1..MaxCalls :
       /\ calls[i].phase = "text"
       /\ LET lines == BufferLines(buffer, calls[i].content)
          IN /\ delivered' = DeliverLines(lines, 1, tfilter, now, delivered)
             /\ buffer' = PopBuffer(lines)
       /\ lastSize' = calls[i].currentSize
       /\ calls' = [calls EXCEPT ![i] = NoCall]
  /\ UNCHANGED <<httpVars, file, locVars, callVars, fnVars, cache, last, now, tfilter, watcher, aborted, events,
                 hist,
                 subs>>

\* The cleanup function returned by tailLogs.
TailCleanup ==
  /\ ~aborted
  /\ aborted' = TRUE
  /\ watcher' = IF watcher = "open" THEN "closed" ELSE watcher
  /\ UNCHANGED <<httpVars, file, locVars, callVars, fnVars, cache, last, now, tfilter, lastSize, buffer,
                 calls, events, delivered, hist,
                 subs>>

TailNext ==
  \/ TailAppend \/ TailTruncate \/ WatchChange \/ TailStat \/ TailCompare
  \/ TailRead \/ TailFinish \/ TailCleanup

TailSpec == TailInit /\ [][TailNext]_vars

(***************************************************************************)
(* GET /api/logs/stream: the ReadableStream's start and cancel.  out is    *)
(* what the controller was given: data events (n consecutive records of a  *)
(* segment as one element), the historical-end event, and the close.       *)
(***************************************************************************)
\* The first j records of a sequence of segments.
RECURSIVE TakeN(_, _)
TakeN(segs, j) ==
  IF j <= 0 \/ segs = <<>> THEN <<>>
  ELSE IF Head(segs).n <= j
    THEN <<Head(segs)>> \o TakeN(Tail(segs), j - Head(segs).n)
  ELSE <<[Head(segs) EXCEPT !.n = j]>>

RECURSIVE CountOf(_)
CountOf(segs) == IF segs = <<>> THEN 0 ELSE Head(segs).n + CountOf(Tail(segs))

\* controller.enqueue(`data: ${JSON.stringify(entry)}\n\n`) for each record.
DataEvents(segs, src) ==
  [i \in 1..Len(segs) |->
     [type |-> "data", src |-> src, n |-> segs[i].n, pos |-> segs[i].pos,
      len |-> segs[i].len, time |-> segs[i].time]]

HistoricalEnd(k) ==
  [type |-> "historical-end", src |-> "", n |-> k, pos |-> 0, len |-> 0,
   time |-> 0]
CloseMark ==
  [type |-> "close", src |-> "", n |-> 0, pos |-> 0, len |-> 0, time |-> 0]

Secret == "s3cret"

\* parseFilter(url): the filter made of the query parameters q.  The offset
\* parameter is kept beside the filter, in req.offset.
parseFilter(q) ==
  [from |-> q.from, to |-> q.to, level |-> q.level, limit |-> q.limit,
   module |-> {}]

\* The files behind a connection: the files of fewer than MaxRuns runs, and
\* of those of MaxRuns runs the ones in time order.
SseFiles == {f \in StreamFiles : Len(f.runs) < MaxRuns \/ Sorted(f)}

\* How far a reader that started at byte s0 has read when it has passed
\* the records segs to onEntry: the end of the chunk that holds the last of
\* them, s0 before the first chunk.
ReadAfter(F, s0, cs, segs) ==
  IF segs = <<>> THEN s0
  ELSE LET g == segs[Len(segs)]
       IN ChunkEnd(F, s0, cs, g.pos + g.n * (g.len + 1) - 1)

\* The handler has passed checkAuth and parseFilter; start() is called.
SseInit ==
  /\ file \in SseFiles
  /\ cache = NoCache
  /\ last = NoReq
  /\ LocIdle
  /\ CallIdle
  /\ FnIdle
  /\ now = MaxTime * Tick
  /\ TailIdle
  /\ PASSWORD = Secret
  /\ page = NoPage /\ hook = NoHook
  /\ req \in [pwd : {Secret}, filter : Filters, offset : {None}]
  /\ resp = [e \in Routes |-> NoResp]
  /\ conn = [NoConn EXCEPT !.phase = "start"]
  /\ out = <<>>
  /\ collected = <<>>

\* await streamLogs(filter, sink) returns.  The sink drops the entries
\* that come once cancelled is set.
SseHistorical ==
  /\ conn.phase = "start"
  /\ \E cs \in ChunkSizes :
       \E r \in {streamLogs(file, cache, cs, parseFilter(req.filter))} :
         /\ cache' = r.cache
         /\ out' = IF conn.cancelled THEN out
                   ELSE out \o DataEvents(r.emitted, "hist")
         /\ conn' = [conn EXCEPT !.phase = "streamed",
                       !.historicalCount =
                          IF conn.cancelled THEN 0 ELSE CountOf(r.emitted)]
  /\ UNCHANGED <<file, locVars, callVars, fnVars, last, now, tailVars, page, hook, PASSWORD, req, resp,
                 collected>>

\* The same, the client going away between two reads of streamLogs, after
\* j entries have been passed to the sink.
SseHistoricalCancelled ==
  /\ conn.phase = "start"
  /\ ~conn.cancelled
  /\ \E cs \in ChunkSizes :
       \E r \in {streamLogs(file, cache, cs, parseFilter(req.filter))} :
         \E j \in {0, CountOf(r.emitted) \div 2} :
           /\ cache' = r.cache
           /\ out' = out \o DataEvents(TakeN(r.emitted, j), "hist")
           /\ conn' = [conn EXCEPT !.phase = "streamed", !.cancelled = TRUE,
                                   !.historicalCount = j,
                                   !.cancelAt =
                                      ReadAfter(file, r.startOffset, cs,
                                                TakeN(r.emitted, j)),
                                   !.readTo =
                                      StreamRun(file, r.startOffset, cs,
                                                parseFilter(req.filter)).read,
                                   !.chunk = cs]
  /\ UNCHANGED <<file, locVars, callVars, fnVars, last, now, tailVars, page, hook, PASSWORD, req, resp,
                 collected>>

\* streamLogs throws and the handler enqueues historical-end before it
\* closes.
SseHistoricalFailsSendsEnd ==
  /\ conn.phase = "start"
  /\ out' = out \o <<HistoricalEnd(0), CloseMark>>
  /\ conn' = [conn EXCEPT !.phase = "closed", !.failed = TRUE]
  /\ UNCHANGED <<file, locVars, callVars, fnVars, cache, last, now, tailVars, page, hook, PASSWORD, req,
                 resp, collected>>

\* streamLogs throws: catch { controller.close() }.  It throws before it
\* reads (no path, no file) or at a read, after j entries have been passed
\* to the sink.
SseHistoricalFails ==
  /\ conn.phase = "start"
  /\ \/ /\ out' = Append(out, CloseMark)
        /\ cache' = cache
     \/ \E cs \in ChunkSizes :
          \E r \in {streamLogs(file, cache, cs, parseFilter(req.filter))} :
            \E j \in {0, CountOf(r.emitted) \div 2} :
              /\ cache' = r.cache
              /\ out' = (IF conn.cancelled THEN out
                         ELSE out \o DataEvents(TakeN(r.emitted, j), "hist"))
                        \o <<CloseMark>>
  /\ conn' = [conn EXCEPT !.phase = "closed", !.failed = TRUE]
  /\ UNCHANGED <<file, locVars, callVars, fnVars, last, now, tailVars, page, hook, PASSWORD, req,
                 resp, collected>>

\* if (cancelled) return; enqueue historical-end; tailLogs(...) or close().
SseAfterHistoricalAlwaysTail ==
  /\ conn.phase = "streamed"
  /\ IF conn.cancelled
       THEN /\ conn' = [conn EXCEPT !.phase = "ended"]
            /\ out' = out
       ELSE /\ out' = Append(out, HistoricalEnd(conn.historicalCount))
            /\ conn' = [conn EXCEPT !.phase = "tailing", !.cleanup = TRUE]
  /\ UNCHANGED <<file, locVars, callVars, fnVars, cache, last, now, tailVars, page, hook, PASSWORD, req,
                 resp, collected>>

SseAfterHistorical ==
  /\ conn.phase = "streamed"
  /\ IF conn.cancelled
       THEN /\ conn' = [conn EXCEPT !.phase = "ended"]
            /\ out' = out
       ELSE IF parseFilter(req.filter).limit = None
         THEN /\ out' = Append(out, HistoricalEnd(conn.historicalCount))
              /\ conn' = [conn EXCEPT !.phase = "tailing", !.cleanup = TRUE]
         ELSE /\ out' = out \o <<HistoricalEnd(conn.historicalCount), CloseMark>>
              /\ conn' = [conn EXCEPT !.phase = "closed"]
  /\ UNCHANGED <<file, locVars, callVars, fnVars, cache, last, now, tailVars, page, hook, PASSWORD, req,
                 resp, collected>>

\* The tailer passes an entry of a new line to the connection's onEntry.
SseTailEntry ==
  /\ conn.phase = "tailing"
  /\ conn.tailed < MaxAppends
  /\ \E r \in TailLines :
       \E e \in {parseLogLine(LineText(r), now)} :
         /\ e.ok /\ filterLog(e.entry, parseFilter(req.filter))
         /\ out' = IF conn.cancelled THEN out
                   ELSE Append(out, [type |-> "data", src |-> "tail", n |-> 1,
                                     pos |-> 0, len |-> e.text.len,
                                     time |-> e.text.time])
  /\ conn' = [conn EXCEPT !.tailed = @ + 1]
  /\ UNCHANGED <<file, locVars, callVars, fnVars, cache, last, now, tailVars, page, hook, PASSWORD, req,
                 resp, collected>>

\* The tailer's onError: controller.close().
SseTailError ==
  /\ conn.phase = "tailing"
  /\ out' = Append(out, CloseMark)
  /\ conn' = [conn EXCEPT !.phase = "closed"]
  /\ UNCHANGED <<file, locVars, callVars, fnVars, cache, last, now, tailVars, page, hook, PASSWORD, req,
                 resp, collected>>

\* cancel(): the client went away.
SseCancel ==
  /\ conn.phase \in {"start", "streamed", "tailing"}
  /\ ~conn.cancelled
  /\ conn' = [conn EXCEPT !.cancelled = TRUE]
  /\ UNCHANGED <<file, locVars, callVars, fnVars, cache, last, now, tailVars, page, hook, PASSWORD, req,
                 resp, out, collected>>

SseNext ==
  \/ SseHistorical \/ SseHistoricalCancelled \/ SseHistoricalFails
  \/ SseAfterHistorical \/ SseTailEntry \/ SseTailError \/ SseCancel

SseSpec == SseInit /\ [][SseNext]_vars

(***************************************************************************)
(* readLogs: the whole file is read in chunks of cs bytes, every line is   *)
(* parsed with parseLogLine, and the entries that pass the filter are      *)
(* collected, then sliced.                                                 *)
(***************************************************************************)
DayMs == 86400000

getTodayStart(clock) == clock - (clock % DayMs)
getTodayEnd(clock) == getTodayStart(clock) + DayMs - 1

\* matchedEntries.push(entry) for k consecutive lines with the text t, the
\* first at byte q.
Push(matched, q, t, k) ==
  LET m == Len(matched)
      seg == [pos |-> q, len |-> t.len, time |-> t.time, n |-> k,
              kind |-> t.kind]
  IN IF m > 0 /\ matched[m].len = t.len /\ matched[m].time = t.time
          /\ matched[m].kind = t.kind
          /\ matched[m].pos + matched[m].n * (t.len + 1) = q
       THEN [matched EXCEPT ![m].n = @ + k]
       ELSE Append(matched, seg)

\* for (const line of lines): the lines from byte q on whose newline lies
\* before b.
RECURSIVE ReadLineLoop(_, _, _, _, _, _)
ReadLineLoop(F, q, b, filter, clock, matched) ==
  IF q >= b THEN matched
  ELSE
    LET p == PieceAt(F, q, Size(F))
        ln == LineAt(F, q)
        cnt == Min(F.runs[ln.run].n - ln.idx, (b - q) \div (p.len + 1))
        e == parseLogLine(LineText(p), clock)
    IN IF ~p.term \/ q + p.len >= b THEN matched
       ELSE ReadLineLoop(F, q + cnt * (p.len + 1), b, filter, clock,
              IF e.ok /\ filterLog(e.entry, filter)
                THEN Push(matched, q, e.text, cnt) ELSE matched)

\* Process remaining buffer.
ReadFinalCarry(F, q, filter, clock, matched) ==
  LET e == parseLogLine(LineText(PieceAt(F, q, Size(F))), clock)
  IN IF e.ok /\ filterLog(e.entry, filter) THEN Push(matched, q, e.text, 1)
     ELSE matched

\* while (true) { read a chunk; ... }: a is where the next chunk starts.
RECURSIVE ReadChunkLoop(_, _, _, _, _, _)
ReadChunkLoop(F, a, cs, filter, clock, matched) ==
  IF a >= Size(F)
    THEN ReadFinalCarry(F, CarryStart(F, Size(F), 0), filter, clock, matched)
  ELSE LET q == CarryStart(F, a, 0)
           b == ChunkEnd(F, 0, cs, Max(a, LastNewlineOfRun(F, q)))
       IN ReadChunkLoop(F, b, cs, filter, clock,
                        ReadLineLoop(F, q, b, filter, clock, matched))

\* All but the first j entries of a sequence of segments.
RECURSIVE DropN(_, _)
DropN(segs, j) ==
  IF j <= 0 \/ segs = <<>> THEN segs
  ELSE IF Head(segs).n <= j THEN DropN(Tail(segs), j - Head(segs).n)
  ELSE <<[Head(segs) EXCEPT !.n = @ - j,
                            !.pos = @ + j * (Head(segs).len + 1)]>>
         \o Tail(segs)

\* readLogs with the slice taken up to limit instead of offset + limit.
readLogsSliceToLimit(F, cs, filter, off, clock) ==
  LET effectiveFilter ==
        [filter EXCEPT
           !.from = IF filter.from = None THEN getTodayStart(clock) ELSE @,
           !.to = IF filter.to = None THEN getTodayEnd(clock) ELSE @]
      limit == filter.limit
      offset == IF off = None THEN 0 ELSE off
      matchedEntries == ReadChunkLoop(F, 0, cs, effectiveFilter, clock, <<>>)
      total == CountOf(matchedEntries)
  IN [logs |-> IF limit # None
                 THEN TakeN(DropN(matchedEntries, offset), limit - offset)
                 ELSE DropN(matchedEntries, offset),
      hasMore |-> (limit # None /\ offset + limit < total),
      total |-> total]

readLogs(F, cs, filter, off, clock) ==
  LET effectiveFilter ==
        [filter EXCEPT
           !.from = IF filter.from = None THEN getTodayStart(clock) ELSE @,
           !.to = IF filter.to = None THEN getTodayEnd(clock) ELSE @]
      limit == filter.limit
      offset == IF off = None THEN 0 ELSE off
      matchedEntries == ReadChunkLoop(F, 0, cs, effectiveFilter, clock, <<>>)
      total == CountOf(matchedEntries)
  IN [logs |-> IF limit # None
                 THEN TakeN(DropN(matchedEntries, offset), limit)
                 ELSE DropN(matchedEntries, offset),
      hasMore |-> (limit # None /\ offset + limit < total),
      total |-> total]

(***************************************************************************)
(* auth.ts and the routes of index.ts.                                     *)
(***************************************************************************)
\* checkAuth(url) with a pwd the server is told to let through whatever the
\* secret is.
checkAuthNoCompare(pwd) ==
  IF PASSWORD = "" THEN [status |-> 500, body |-> "LOG_PASSWORD not configured"]
  ELSE [status |-> 0, body |-> ""]

\* checkAuth(url): the error response, or status 0 for null (auth passed).
checkAuth(pwd) ==
  IF PASSWORD = "" THEN [status |-> 500, body |-> "LOG_PASSWORD not configured"]
  ELSE IF pwd # PASSWORD THEN [status |-> 401, body |-> "Unauthorized"]
  ELSE [status |-> 0, body |-> ""]

ErrorResp(a) == [NoResp EXCEPT !.done = TRUE, !.status = a.status,
                               !.body = a.body]
\* renderLoginPage(cssPath, jsPath)
LoginPage == [NoResp EXCEPT !.done = TRUE, !.status = 200, !.body = "login"]

(***************************************************************************)
(* The server and one client, which asks the routes with one pwd and one   *)
(* filter and pages through /api/logs.                                     *)
(***************************************************************************)
MaxOffset == 1

ApiRuns ==
  {r \in RunChoices : r.n * r.len = 300 \/ (r.kind # "rec" /\ r.n = 1 /\ r.len <= 150)}

\* The limit that the README and the header of /api/logs/raw give as the
\* default, and a run of one record more than that.
DefaultLimit == 1000
ManyRecords ==
  [kind |-> "rec", time |-> Tick, len |-> 150, n |-> DefaultLimit + 1]

ManyRecordsFile == [runs |-> <<ManyRecords>>, nl |-> TRUE]

ApiFiles ==
  {F \in Files(MaxRuns - 1) :
     /\ \A i \in 1..Len(F.runs) : F.runs[i] \in ApiRuns
     /\ (F.nl \/ Len(F.runs) < MaxRuns - 1)}
    \cup {ManyRecordsFile}

ApiFilters ==
  [from : {None, MaxTime * Tick}, to : {None, Tick},
   limit : {None} \cup 1..(MaxLimit + 1), level : {{}}, module : {{}}]

\* The client asks one route at a time: no request is being answered.
NoneInProgress == conn.phase \notin {"start", "streamed"}

ApiInit ==
  /\ file \in ApiFiles
  /\ cache = NoCache
  /\ last = NoReq
  /\ LocIdle
  /\ CallIdle
  /\ FnIdle
  /\ now \in {MaxTime * Tick, DayMs + Tick}
  /\ TailIdle
  /\ PASSWORD \in {"", Secret}
  /\ page = NoPage /\ hook = NoHook
  /\ \/ req \in [pwd : {Secret}, filter : ApiFilters,
                 offset : {None} \cup 1..MaxOffset]
     \/ req \in [pwd : {Secret},
                 filter : {[f EXCEPT !.module = ms] :
                             f \in {g \in ApiFilters : g.limit = None},
                             ms \in {{"api"}, {"api", "test"}}},
                 offset : {None}]
     \/ req \in [pwd : {"wrong", ""},
                 filter : {f \in ApiFilters : f.to = None /\ f.limit = None},
                 offset : {None}]
  /\ (file = ManyRecordsFile => req.filter.limit = None)
  /\ resp = [e \in Routes |-> NoResp]
  /\ conn = NoConn
  /\ out = <<>>
  /\ collected = <<>>

\* '/api/logs' GET
GetLogs ==
  /\ NoneInProgress
  /\ ~resp["/api/logs"].done
  /\ \E authError \in {checkAuth(req.pwd)} :
       IF authError.status # 0
         THEN /\ resp' = [resp EXCEPT !["/api/logs"] = ErrorResp(authError)]
              /\ UNCHANGED collected
         ELSE \E cs \in ChunkSizes :
                \E result \in {readLogs(file, cs, parseFilter(req.filter), req.offset, now)} :
                  /\ resp' = [resp EXCEPT !["/api/logs"] =
                       [done |-> TRUE, status |-> 200, body |-> "json",
                        logs |-> result.logs, count |-> CountOf(result.logs),
                        total |-> result.total, hasMore |-> result.hasMore]]
                  /\ collected' = Append(collected,
                       [offset |-> req.offset, logs |-> result.logs])
  /\ UNCHANGED <<file, locVars, callVars, fnVars, cache, last, now, tailVars, page, hook, PASSWORD, req,
                 conn, out>>

\* The client asks for the next page: offset + limit.
NextPage ==
  /\ NoneInProgress
  /\ resp["/api/logs"].done
  /\ resp["/api/logs"].hasMore
  /\ req' = [req EXCEPT !.offset = (IF @ = None THEN 0 ELSE @) + req.filter.limit]
  /\ resp' = [resp EXCEPT !["/api/logs"] = NoResp]
  /\ UNCHANGED <<file, locVars, callVars, fnVars, cache, last, now, tailVars, page, hook, PASSWORD, conn,
                 out, collected>>

\* '/api/logs/raw' GET
GetRaw ==
  /\ NoneInProgress
  /\ ~resp["/api/logs/raw"].done
  /\ \E authError \in {checkAuth(req.pwd)} :
       IF authError.status # 0
         THEN resp' = [resp EXCEPT !["/api/logs/raw"] = ErrorResp(authError)]
         ELSE \E cs \in ChunkSizes :
                \E result \in {readLogs(file, cs, parseFilter(req.filter), req.offset, now)} :
                  resp' = [resp EXCEPT !["/api/logs/raw"] =
                    [done |-> TRUE, status |-> 200, body |-> "text",
                     logs |-> result.logs, count |-> CountOf(result.logs),
                     total |-> result.total, hasMore |-> result.hasMore]]
  /\ UNCHANGED <<file, locVars, callVars, fnVars, cache, last, now, tailVars, page, hook, PASSWORD, req,
                 conn, out, collected>>

\* '/api/logs/stream' GET, up to the return of the Response; start() and
\* cancel() are the actions of the connection.
GetStream ==
  /\ NoneInProgress
  /\ ~resp["/api/logs/stream"].done
  /\ \E authError \in {checkAuth(req.pwd)} :
       IF authError.status # 0
         THEN /\ resp' = [resp EXCEPT !["/api/logs/stream"] = ErrorResp(authError)]
              /\ UNCHANGED conn
         ELSE /\ resp' = [resp EXCEPT !["/api/logs/stream"] =
                   [NoResp EXCEPT !.done = TRUE, !.status = 200,
                                  !.body = "event-stream"]]
              /\ conn' = [NoConn EXCEPT !.phase = "start"]
  /\ UNCHANGED <<file, locVars, callVars, fnVars, cache, last, now, tailVars, page, hook, PASSWORD, req,
                 out, collected>>

\* '/' GET: the login page, or the page with the rows of streamLogs.
GetRoot ==
  /\ NoneInProgress
  /\ ~resp["/"].done
  /\ \E authError \in {checkAuth(req.pwd)} :
       IF authError.status # 0
         THEN /\ resp' = [resp EXCEPT !["/"] = LoginPage]
              /\ UNCHANGED cache
         ELSE \E cs \in ChunkSizes :
                \E r \in {streamLogs(file, cache, cs, parseFilter(req.filter))} :
                  /\ cache' = r.cache
                  /\ resp' = [resp EXCEPT !["/"] =
                       [done |-> TRUE, status |-> 200, body |-> "app",
                        logs |-> r.emitted, count |-> CountOf(r.emitted),
                        total |-> 0, hasMore |-> FALSE]]
  /\ UNCHANGED <<file, locVars, callVars, fnVars, last, now, tailVars, page, hook, PASSWORD, req, conn, out,
                 collected>>

ApiNext ==
  \/ GetLogs \/ NextPage \/ GetRaw \/ GetStream \/ GetRoot
  \/ SseHistorical \/ SseAfterHistorical

ApiSpec == ApiInit /\ [][ApiNext]_vars

\* C1: on a file whose strict records are in non-decreasing time order, the
\* locator returns the first strict record with time >= target: firstLine is
\* that record and offset is the byte at which it starts.
C1_LocatorReturnsFirstMatch ==
  (pc = "done" /\ Sorted(file) /\ FirstMatchPos(file, target) # -1)
    => /\ res.found
       /\ res.line.kind = "rec"
       /\ res.line.time >= target
       /\ res.offset = FirstMatchPos(file, target)

(***************************************************************************)
(* What the claims about streamLogs speak of.                              *)
(***************************************************************************)
\* The line that starts at byte q is one of the records passed to onEntry.
IsEmitted(emitted, q) ==
  \E i \in 1..Len(emitted) :
    LET g == emitted[i]
    IN g.pos <= q /\ q < g.pos + g.n * (g.len + 1)
         /\ (q - g.pos) % (g.len + 1) = 0

\* Every record of the sequence a is in the sequence b.
Covers(b, a) ==
  \A i \in 1..Len(a) :
    /\ IsEmitted(b, a[i].pos)
    /\ IsEmitted(b, a[i].pos + (a[i].n - 1) * (a[i].len + 1))
    /\ \E j \in 1..Len(b) :
         /\ b[j].len = a[i].len
         /\ b[j].pos <= a[i].pos
         /\ a[i].pos + a[i].n * (a[i].len + 1) <= b[j].pos + b[j].n * (b[j].len + 1)

\* C2: on a file above the locator threshold whose strict records are in
\* non-decreasing time order, a request with from = T that runs the locator
\* emits the records that a scan from byte 0 with the same filter emits, and
\* no strict record with time >= T starts before the start offset it uses.
C2_LocatedStreamEqualsFullScan ==
  (last.done /\ last.search /\ Sorted(file))
    => /\ \A cs \in ChunkSizes :
            last.emitted = StreamFrom(file, 0, cs, last.filter)
       /\ (FirstMatchPos(file, last.filter.from) # -1
             => last.startOffset <= FirstMatchPos(file, last.filter.from))

\* All the lines of run i that start at or after byte s0 were emitted.
RunEmittedFrom(F, i, s0, emitted) ==
  LET r == F.runs[i]
      base == RunBase(F.runs, i)
      k0 == IF s0 <= base THEN 0 ELSE (s0 - base + r.len) \div (r.len + 1)
      firstPos == base + k0 * (r.len + 1)
  IN k0 < r.n =>
       \E j \in 1..Len(emitted) :
         LET g == emitted[j]
         IN /\ g.len = r.len /\ g.time = r.time
            /\ g.pos <= firstPos /\ (firstPos - g.pos) % (g.len + 1) = 0
            /\ base + r.n * (r.len + 1) <= g.pos + g.n * (g.len + 1)

InBounds(t, filter) ==
  /\ (filter.from # None => filter.from <= t)
  /\ (filter.to # None => t <= filter.to)

\* C3: every record passed to the sink has from <= time <= to for the bounds
\* that are set; and the bounds are inclusive: on a file in time order and
\* without a limit, the records read whose time equals from or to (and lies
\* within the bounds) are all passed to the sink.
C3_EmittedWithinBounds ==
  last.done =>
    /\ \A i \in 1..Len(last.emitted) :
         /\ last.emitted[i].time # None
         /\ InBounds(last.emitted[i].time, last.filter)
    /\ (Sorted(file) /\ last.filter.limit = None) =>
         \A i \in 1..Len(file.runs) :
           (/\ file.runs[i].kind = "rec"
            /\ file.runs[i].time \in {last.filter.from, last.filter.to}
            /\ InBounds(file.runs[i].time, last.filter))
             => RunEmittedFrom(file, i, last.startOffset, last.emitted)

\* A request with from = to whose answer holds a record at that instant,
\* on a file that also holds a later record.
C3_Witness ==
  /\ last.done
  /\ last.filter.from # None
  /\ last.filter.from = last.filter.to
  /\ \E i \in 1..Len(last.emitted) : last.emitted[i].time = last.filter.to
  /\ \E i \in 1..Len(file.runs) :
       file.runs[i].kind = "rec" /\ file.runs[i].time > last.filter.to

\* C4: a request served from a validated cache hit emits every record that
\* streaming from byte 0 with the same filter emits, and the cached offset is
\* not past the first record with time >= the request's from.
C4_CacheHitMissesNothing ==
  (last.done /\ last.cacheHit)
    => /\ \A cs \in ChunkSizes :
            Covers(last.emitted, StreamFrom(file, 0, cs, last.filter))
       /\ (FirstMatchPos(file, last.filter.from) # -1
             => last.startOffset <= FirstMatchPos(file, last.filter.from))

\* C5: when the file is truncated while a subscription without a time bound
\* is at rest, and one record is then appended, the subscriber gets exactly
\* that record after the truncation.
C5_RotationDeliversNewRecord ==
  (/\ hist.rot = 1 /\ hist.quiet /\ Len(hist.app) = 1
   /\ hist.app[1].kind = "rec"
   /\ tfilter = NoFilter /\ ~aborted /\ Quiescent)
    => SubSeq(delivered, hist.mark + 1, Len(delivered))
         = <<LineText(hist.app[1])>>

\* The number of strict records of the file that pass the filter.
RECURSIVE MatchCount(_, _, _)
MatchCount(F, filter, i) ==
  IF i > Len(F.runs) THEN 0
  ELSE MatchCount(F, filter, i + 1)
         + (IF F.runs[i].kind = "rec" /\ InBounds(F.runs[i].time, filter)
              THEN F.runs[i].n ELSE 0)

DataCount(k) ==
  CountOf(SubSeq(out, 1, k))

\* C6: a connection with limit = L on a file in time order with at least L
\* matching records, not cancelled and whose read did not fail, gets exactly L data
\* events, then historical-end with payload L, then the close, and no
\* tailer is attached.
C6_LimitedStreamSendsLThenCloses ==
  (/\ req.filter.limit # None
   /\ conn.phase \in {"tailing", "closed", "ended"}
   /\ ~conn.cancelled /\ ~conn.failed
   /\ Sorted(file)
   /\ MatchCount(file, req.filter, 1) >= req.filter.limit)
    => /\ Len(out) >= 2
       /\ out[Len(out)] = CloseMark
       /\ out[Len(out) - 1] = HistoricalEnd(req.filter.limit)
       /\ \A i \in 1..(Len(out) - 2) : out[i].type = "data"
       /\ DataCount(Len(out) - 2) = req.filter.limit
       /\ ~conn.cleanup

HistEnds == {i \in 1..Len(out) : out[i].type = "historical-end"}

\* C7: on a live-stream connection at most one historical-end is sent, and
\* exactly one once the historical read has succeeded without a cancel; only
\* historical data events precede it, all of them, and its payload is their
\* number; the tailer is attached, and tail events are sent, only after it
\* and only when limit is absent.
C7_OneHistoricalEnd ==
  /\ Cardinality(HistEnds) <= 1
  /\ \A k \in HistEnds :
       /\ \A i \in 1..(k - 1) : out[i].type = "data" /\ out[i].src = "hist"
       /\ \A i \in (k + 1)..Len(out) : out[i].src # "hist"
       /\ out[k].n = DataCount(k - 1)
  /\ (conn.cleanup \/ \E i \in 1..Len(out) : out[i].src = "tail")
       => (HistEnds # {} /\ req.filter.limit = None)
  /\ \A i \in 1..Len(out) :
       out[i].src = "tail" => \E k \in HistEnds : k < i
  /\ (conn.phase \in {"tailing", "closed", "ended"} /\ ~conn.failed
        /\ ~conn.cancelled)
       => Cardinality(HistEnds) = 1

\* A connection without limit that has sent historical records, the
\* historical-end event and then an entry from the tailer.
C7_Witness ==
  /\ conn.phase = "tailing" /\ ~conn.cancelled
  /\ Len(out) >= 3
  /\ out[1].src = "hist"
  /\ out[Len(out)].src = "tail"
  /\ HistEnds # {}

\* The data events sent before historical-end, as entries.
HistoricalEntries ==
  LET k == CHOOSE i \in HistEnds : TRUE
  IN [i \in 1..(k - 1) |->
        [pos |-> out[i].pos, len |-> out[i].len, time |-> out[i].time,
         n |-> out[i].n, kind |-> "rec"]]

\* C8: for the same filter (without offset) and the same file, the records
\* that /api/logs returns are the data events that /api/logs/stream sends
\* before historical-end, in the same order.
C8_BulkEqualsStreamHistorical ==
  (/\ resp["/api/logs"].done /\ resp["/api/logs"].status = 200
   /\ req.offset = None
   /\ HistEnds # {})
    => resp["/api/logs"].logs = HistoricalEntries

\* The lines of the file, one by one, from run i on.
RECURSIVE AllLines(_, _)
AllLines(F, i) ==
  IF i > Len(F.runs) THEN <<>>
  ELSE [k \in 1..F.runs[i].n |->
          [pos |-> RunBase(F.runs, i) + (k - 1) * (F.runs[i].len + 1),
           text |-> LineText(F.runs[i])]]
         \o AllLines(F, i + 1)

\* The match sequence M of a filter: the entries of the lines of the file
\* that pass the filter readLogs applies, one by one, in file order.
MatchSeq(F, filter, clock) ==
  LET eff == [filter EXCEPT
                !.from = IF @ = None THEN clock - (clock % DayMs) ELSE @,
                !.to = IF @ = None THEN clock - (clock % DayMs) + DayMs - 1 ELSE @]
      hit(l) == LET e == parseLogLine(l.text, clock)
                IN e.ok /\ filterLog(e.entry, eff)
      keep == SelectSeq(AllLines(F, 1), hit)
  IN [i \in 1..Len(keep) |->
        LET t == parseLogLine(keep[i].text, clock).text
        IN [pos |-> keep[i].pos, len |-> t.len, time |-> t.time,
            kind |-> t.kind]]

\* The entries of a sequence of segments, one by one.
RECURSIVE Expand(_)
Expand(segs) ==
  IF segs = <<>> THEN <<>>
  ELSE [k \in 1..Head(segs).n |->
          [pos |-> Head(segs).pos + (k - 1) * (Head(segs).len + 1),
           len |-> Head(segs).len, time |-> Head(segs).time,
           kind |-> Head(segs).kind]]
         \o Expand(Tail(segs))

RECURSIVE Pages(_)
Pages(c) == IF c = <<>> THEN <<>> ELSE Expand(Head(c).logs) \o Pages(Tail(c))

Unauthenticated == PASSWORD = "" \/ req.pwd # PASSWORD

\* C10: a request without the configured secret is answered 401 by
\* /api/logs, /api/logs/raw and /api/logs/stream, and 500 when no secret is
\* configured; the answers to it, the login page of / included, are fixed
\* values that do not depend on the file, and nothing of the file is read.
C10_UnauthenticatedSeesNothing ==
  Unauthenticated
    => /\ \A e \in Routes \ {"/"} :
            resp[e].done
              => resp[e] =
                   IF PASSWORD = ""
                     THEN [NoResp EXCEPT !.done = TRUE, !.status = 500,
                             !.body = "LOG_PASSWORD not configured"]
                     ELSE [NoResp EXCEPT !.done = TRUE, !.status = 401,
                             !.body = "Unauthorized"]
       /\ resp["/"].done
            => resp["/"] = [NoResp EXCEPT !.done = TRUE, !.status = 200,
                                          !.body = "login"]
       /\ out = <<>> /\ conn = NoConn /\ cache = NoCache /\ collected = <<>>

\* Every route has answered a request with a wrong pwd on a file that holds
\* records.
C10_Witness ==
  /\ PASSWORD # "" /\ req.pwd = "wrong"
  /\ \A e \in Routes : resp[e].done
  /\ \E i \in 1..Len(file.runs) : file.runs[i].kind = "rec"


(***************************************************************************)
(* What the further claims about the locator speak of.                     *)
(***************************************************************************)
\* The runs of strict records of the file.
RecRuns(F) == {i \in 1..Len(F.runs) : F.runs[i].kind = "rec"}

\* C11: when the target precedes every record of a file in time order that
\* begins with a record, the locator returns offset 0; when the target exceeds
\* every record, or the file has no record, it returns an empty firstLine.
C11_TargetOutsideFile ==
  pc = "done" =>
    /\ (/\ Sorted(file)
        /\ Len(file.runs) > 0 /\ file.runs[1].kind = "rec"
        /\ \A i \in RecRuns(file) : target < file.runs[i].time)
         => res.offset = 0
    /\ (\A i \in RecRuns(file) : file.runs[i].time < target)
         => (~res.found /\ res.line = NoLine)

\* The half of C11 about a target after every record.
C11_AfterAllIsEmpty ==
  (pc = "done" /\ \A i \in RecRuns(file) : file.runs[i].time < target)
    => (~res.found /\ res.line = NoLine)


\* C12: when the file has a strict record with time >= target, its records are
\* shorter than a probe, and the binary search has left the scan start before
\* that record, the locator returns a non-empty firstLine, however many bytes
\* of other lines lie between the scan start and the record.
C12_ScanReachesTheRecord ==
  (/\ pc = "done"
   /\ FirstMatchPos(file, target) # -1
   /\ \A i \in RecRuns(file) : file.runs[i].len < ProbeSize
   /\ (low = 0 \/ low < FirstMatchPos(file, target)))
    => (res.found /\ res.line # NoLine)


\* Every line of the file is a strict record shorter than a probe.
ShortRecordsOnly(F) ==
  \A i \in 1..Len(F.runs) : F.runs[i].kind = "rec" /\ F.runs[i].len < ProbeSize

\* C13: on a file of short strict records that are not in time order, the
\* locator returns the first strict record with time >= target: no record
\* with time >= target lies before the returned offset.
C13_CorrectWithoutOrder ==
  (/\ pc = "done"
   /\ ~Sorted(file)
   /\ ShortRecordsOnly(file)
   /\ FirstMatchPos(file, target) # -1)
    => /\ res.found
       /\ res.line.kind = "rec"
       /\ res.line.time >= target
       /\ res.offset = FirstMatchPos(file, target)

\* The same on files of short strict records that are in time order.
C13_CorrectWithOrder ==
  (/\ pc = "done"
   /\ Sorted(file)
   /\ ShortRecordsOnly(file)
   /\ FirstMatchPos(file, target) # -1)
    => /\ res.found
       /\ res.line.kind = "rec"
       /\ res.line.time >= target
       /\ res.offset = FirstMatchPos(file, target)


(***************************************************************************)
(* Several calls of findOffsetForDate on the same unchanged file with the  *)
(* same target and size.  Every call has its own low and high; the calls   *)
(* are async functions, so their loop iterations interleave at the awaits. *)
(* A call that has returned may be made again.                             *)
(***************************************************************************)
MaxRepeats == 2
CallFiles == Files(MaxRuns - 1)

CallsInit ==
  /\ file \in CallFiles
  /\ target \in Targets
  /\ low = 0 /\ high = 0 /\ pc = "idle" /\ res = NotFound(0)
  /\ iterations = 0
  /\ cache = NoCache
  /\ last = NoReq
  /\ now = 0
  /\ TailIdle
  /\ HttpIdle
  /\ CallIdle
  /\ FnIdle

\* let low = 0; let high = fileSize: the variables of the call i, as if they
\* were shared with the first call.
LocalsShared(i) == [running[i] EXCEPT !.low = running[1].low]

\* let low = 0; let high = fileSize: the variables of the call i.
LocalsOf(i) == running[i]

\* The calls after a step of call i that leaves it in c: every call that is
\* in its search while another one steps has been interleaved with it.
AfterStep(i, c) ==
  [j \in 1..MaxLocCalls |->
     IF j = i
       THEN [c EXCEPT !.mixed =
               c.mixed \/ \E k \in 1..MaxLocCalls : k # i /\ running[k].pc = "bs"]
     ELSE IF running[j].pc = "bs" THEN [running[j] EXCEPT !.mixed = TRUE]
     ELSE running[j]]

CallStart(i) ==
  /\ running[i].pc \in {"idle", "done"}
  /\ running[i].n < MaxRepeats
  /\ running' = AfterStep(i, [low |-> 0, high |-> Size(file), pc |-> "bs",
                              res |-> NotFound(0), n |-> running[i].n + 1,
                              mixed |-> FALSE])
  /\ UNCHANGED <<file, locVars, cache, last, now, tailVars, httpVars, returned,
                 streams, fnVars>>

CallBsStep(i) ==
  \E c \in {LocalsOf(i)} :
    /\ c.pc = "bs"
    /\ c.high - c.low > BsWindow
    /\ \E n \in {BsNext(file, target, c.low, c.high)} :
         running' = AfterStep(i, [c EXCEPT !.low = n.low, !.high = n.high])
    /\ UNCHANGED <<file, locVars, cache, last, now, tailVars, httpVars,
                   returned, streams, fnVars>>

CallLinearScan(i) ==
  \E c \in {LocalsOf(i)} :
    /\ c.pc = "bs"
    /\ c.high - c.low <= BsWindow
    /\ \E r \in {ConfirmScan(file, target, c.low)} :
         /\ running' = AfterStep(i, [c EXCEPT !.res = r, !.pc = "done"])
         /\ returned' = returned \cup {[offset |-> r.offset, firstLine |-> r.line]}
    /\ UNCHANGED <<file, locVars, cache, last, now, tailVars, httpVars, streams,
                   fnVars>>

CallsNext ==
  \E i \in 1..MaxLocCalls : CallStart(i) \/ CallBsStep(i) \/ CallLinearScan(i)

CallsSpec == CallsInit /\ [][CallsNext]_vars

TimeStrs ==
  {[form |-> "none", ms |-> 0], [form |-> "garbage", ms |-> 0]}
    \cup {[form |-> f, ms |-> t] : f \in {"iso", "native"}, t \in Times}

parseLogDate(timeStr) ==
  IF timeStr.form = "none" THEN None
  ELSE IF timeStr.form = "iso" THEN timeStr.ms
  ELSE IF timeStr.form = "native" THEN timeStr.ms
  ELSE None

\* The entries and filters that filterLog is applied to.
Levels == {"", "info", "INFO", "error"}
Modules == {"", "api", "db"}
LogEntries ==
  {[level |-> l, module |-> m, time |-> ts] :
     l \in Levels, m \in Modules, ts \in TimeStrs}
LogFilters ==
  {[from |-> f, to |-> t, limit |-> None, level |-> ls, module |-> ms] :
     f \in {None} \cup Times, t \in {None} \cup Times,
     ls \in SUBSET {"info", "error"}, ms \in SUBSET {"api", "db"}}

(***************************************************************************)
(* The text of a line, as far as JSON.parse and the two parsers tell texts *)
(* apart: blank (empty, or ws whitespace characters), a JSON object with   *)
(* its keys other than time and its time string, the JSON literal null,    *)
(* another JSON value that is no object ("scalar"), or a text that is not  *)
(* JSON.  id tells two texts of the same shape apart.                      *)
(***************************************************************************)
MaxKeys == 2
EntryKeys == {"level", "module", "msg", "userId"}
NoTime == [form |-> "none", ms |-> 0]
Texts ==
  {[shape |-> "blank", keys |-> {}, time |-> NoTime, id |-> ws] : ws \in {0, 3}}
    \cup {[shape |-> sh, keys |-> {}, time |-> NoTime, id |-> i] :
            sh \in {"text", "scalar"}, i \in 1..2}
    \cup {[shape |-> "null", keys |-> {}, time |-> NoTime, id |-> 1]}
    \cup {[shape |-> "object", keys |-> ks, time |-> ts, id |-> 1] :
            ks \in {k \in SUBSET EntryKeys : Cardinality(k) <= MaxKeys},
            ts \in TimeStrs}

\* line.trim() is empty
IsBlank(text) == text.shape = "blank"

\* JSON.parse(line): it throws on a text that is not JSON; the value of an
\* object has the keys and the time of the text.
JSONparse(text) ==
  IF text.shape \in {"blank", "text"}
    THEN [threw |-> TRUE, type |-> "", keys |-> {}, time |-> NoTime, id |-> 0]
    ELSE [threw |-> FALSE, type |-> text.shape, keys |-> text.keys,
          time |-> text.time, id |-> text.id]

\* What a parser returns: null (ok = FALSE) or a value.
Nothing ==
  [ok |-> FALSE, type |-> "", keys |-> {}, time |-> NoTime, level |-> "",
   msg |-> 0, id |-> 0]
Parsed(v) ==
  [ok |-> TRUE, type |-> v.type, keys |-> v.keys, time |-> v.time,
   level |-> "", msg |-> 0, id |-> v.id]

\* parseLogLineStrict without the check that the time parses.
parseLogLineStrictNoDate(text) ==
  IF IsBlank(text) THEN Nothing
  ELSE LET entry == JSONparse(text)
       IN IF entry.threw THEN Nothing
          ELSE IF entry.type = "null" THEN Nothing
          ELSE IF entry.type = "scalar" \/ entry.time.form = "none" THEN Nothing
          ELSE Parsed(entry)

\* parseLogLineStrict(line).  entry.time of null throws a TypeError, which
\* the catch turns into null; entry.time of a scalar is undefined.
parseLogLineStrict(text) ==
  IF IsBlank(text) THEN Nothing
  ELSE LET entry == JSONparse(text)
       IN IF entry.threw THEN Nothing
          ELSE IF entry.type = "null" THEN Nothing
          ELSE IF entry.type = "scalar" \/ entry.time.form = "none" THEN Nothing
          ELSE IF parseLogDate(entry.time) = None THEN Nothing
          ELSE Parsed(entry)

\* parseLogLine(line) on a text, the clock being new Date(): the value of
\* JSON.parse as it is (null for the literal null), or the raw message.
parseLogLineText(text, clock) ==
  IF IsBlank(text) THEN Nothing
  ELSE LET entry == JSONparse(text)
       IN IF entry.threw
            THEN [ok |-> TRUE, type |-> "object", keys |-> {"level", "msg"},
                  time |-> [form |-> "iso", ms |-> clock], level |-> "info",
                  msg |-> text, id |-> 0]
          ELSE IF entry.type = "null" THEN Nothing
          ELSE Parsed(entry)

\* The kind that the model of the file gives to a line with this text.
KindOfText(text) ==
  IF IsBlank(text) THEN "blank"
  ELSE IF parseLogLineStrict(text).ok THEN "rec"
  ELSE "junk"

StrictSamples ==
  {[fn |-> "parseLogLineStrict", text |-> t, done |-> FALSE, value |-> Nothing] :
     t \in Texts}
ParseSamples ==
  {[fn |-> "parseLogLine", text |-> t, done |-> FALSE, value |-> Nothing] :
     t \in Texts}

FilterSamples ==
  {[fn |-> "filterLog", entry |-> e, filter |-> f, done |-> FALSE,
    value |-> FALSE] : e \in LogEntries, f \in LogFilters}

FnInit ==
  /\ sample \in FilterSamples \cup StrictSamples \cup ParseSamples
  /\ file = [runs |-> <<>>, nl |-> TRUE]
  /\ LocIdle
  /\ CallIdle
  /\ cache = NoCache
  /\ last = NoReq
  /\ now = 0
  /\ TailIdle
  /\ HttpIdle

\* filterLog(entry, filter), with its call of parseLogDate(entry.time).
ApplyFilterLog ==
  /\ sample.fn = "filterLog"
  /\ ~sample.done
  /\ sample' =
       [sample EXCEPT
          !.done = TRUE,
          !.value = filterLog([level |-> sample.entry.level,
                               module |-> sample.entry.module,
                               time |-> parseLogDate(sample.entry.time)],
                              sample.filter)]
  /\ UNCHANGED <<file, locVars, callVars, cache, last, now, tailVars, httpVars>>

\* parseLogLineStrict(line)
ApplyParseLogLineStrict ==
  /\ sample.fn = "parseLogLineStrict"
  /\ ~sample.done
  /\ sample' = [sample EXCEPT !.done = TRUE,
                              !.value = parseLogLineStrict(sample.text)]
  /\ UNCHANGED <<file, locVars, callVars, cache, last, now, tailVars, httpVars>>

\* parseLogLine(line)
ApplyParseLogLine ==
  /\ sample.fn = "parseLogLine"
  /\ ~sample.done
  /\ sample' = [sample EXCEPT !.done = TRUE,
                              !.value = parseLogLineText(sample.text, now)]
  /\ UNCHANGED <<file, locVars, callVars, cache, last, now, tailVars, httpVars>>

FnNext == ApplyFilterLog \/ ApplyParseLogLineStrict \/ ApplyParseLogLine

FnSpec == FnInit /\ [][FnNext]_vars

\* The time string denotes an instant.
Parses(timeStr) == timeStr.form \in {"iso", "native"}

\* C15: filterLog(entry, filter) is true exactly when the level list is empty
\* or has entry.level (compared as it is written), the module list is empty
\* or entry has a module that is in it, and no time bound is set or
\* entry.time parses to t with from <= t when from is set and t <= to when to
\* is set.
C15_FilterLogExactly ==
  (sample.fn = "filterLog" /\ sample.done) =>
    LET e == sample.entry
        f == sample.filter
    IN sample.value <=>
         /\ (f.level = {} \/ e.level \in f.level)
         /\ (f.module = {} \/ (e.module # "" /\ e.module \in f.module))
         /\ \/ (f.from = None /\ f.to = None)
            \/ /\ Parses(e.time)
               /\ (f.from = None \/ f.from <= e.time.ms)
               /\ (f.to = None \/ e.time.ms <= f.to)

\* filterLog has accepted an entry under a filter with a level list, a module
\* list and both time bounds.
C15_Witness ==
  /\ sample.fn = "filterLog" /\ sample.done /\ sample.value
  /\ sample.filter.level # {} /\ sample.filter.module # {}
  /\ sample.filter.from # None /\ sample.filter.to # None

\* filterLog has rejected a level that differs from the one asked for only in
\* its case, and an entry with an unparseable time under a time bound.
C15_WitnessRejects ==
  /\ sample.fn = "filterLog" /\ sample.done /\ ~sample.value
  /\ \/ (sample.entry.level = "INFO" /\ sample.filter.level = {"info"})
     \/ (~Parses(sample.entry.time) /\ sample.filter.from # None)


\* The module of a record of a response: a strict record of the file has the
\* module that EntryOf gives it, a synthesized record has none.
ModuleOfRow(g) == IF g.kind = "rec" THEN EntryOf(g).module ELSE ""

\* C16: a request that carries module=m1,...,mk is answered, on every route,
\* with records whose module is one of m1..mk only.
C16_ModuleParameterApplied ==
  req.filter.module # {} =>
    /\ \A route \in {"/api/logs", "/api/logs/raw"} :
         (resp[route].done /\ resp[route].status = 200)
           => \A i \in 1..Len(resp[route].logs) :
                ModuleOfRow(resp[route].logs[i]) \in req.filter.module
    /\ (resp["/"].done /\ resp["/"].status = 200)
         => \A i \in 1..Len(resp["/"].logs) :
              EntryOf(resp["/"].logs[i]).module \in req.filter.module
    /\ \A i \in 1..Len(out) :
         out[i].type = "data" => EntryOf(out[i]).module \in req.filter.module


\* C17: parseLogLineStrict returns a record exactly for the texts that are a
\* JSON object with a time that parseLogDate accepts, and the record is that
\* object; for a blank text, a text that is not JSON, and JSON without a
\* parseable time it returns nothing.
C17_StrictExactly ==
  (sample.fn = "parseLogLineStrict" /\ sample.done) =>
    LET t == sample.text
        v == sample.value
    IN /\ v.ok <=> (t.shape = "object" /\ Parses(t.time))
       /\ v.ok => (v.type = "object" /\ v.keys = t.keys /\ v.time = t.time)

\* parseLogLineStrict has returned the record of a JSON object whose time
\* only new Date() accepts.
C17_Witness ==
  /\ sample.fn = "parseLogLineStrict" /\ sample.done /\ sample.value.ok
  /\ sample.text.time.form = "native" /\ sample.text.keys # {}
  /\ KindOfText(sample.text) = "rec"

\* parseLogLineStrict has returned nothing for a JSON object whose time does
\* not parse.
C17_WitnessRejects ==
  /\ sample.fn = "parseLogLineStrict" /\ sample.done /\ ~sample.value.ok
  /\ sample.text.shape = "object" /\ sample.text.time.form = "garbage"

\* C18: parseLogLine returns nothing exactly when the text is blank; for a
\* text that is JSON it returns the parsed value with all its keys; for any
\* other text that is not blank it returns a record with level 'info' and
\* the text itself as msg.
C18_ParseLogLineExactly ==
  (sample.fn = "parseLogLine" /\ sample.done) =>
    LET t == sample.text
        v == sample.value
    IN /\ ~v.ok <=> t.shape = "blank"
       /\ t.shape \in {"object", "null", "scalar"}
            => (v.type = t.shape /\ v.keys = t.keys /\ v.time = t.time)
       /\ t.shape = "text" => (v.ok /\ v.level = "info" /\ v.msg = t)

\* C18 without the texts that are the JSON literal null.
C18_ExceptNull ==
  (sample.fn = "parseLogLine" /\ sample.done /\ sample.text.shape # "null") =>
    LET t == sample.text
        v == sample.value
    IN /\ ~v.ok <=> t.shape = "blank"
       /\ t.shape \in {"object", "scalar"}
            => (v.type = t.shape /\ v.keys = t.keys /\ v.time = t.time)
       /\ t.shape = "text" => (v.ok /\ v.level = "info" /\ v.msg = t)


\* The line that the locator returns is a strict record of the file.
C17_LocatorReturnsStrict ==
  (pc = "done" /\ res.found) => res.line.kind = "rec"


(***************************************************************************)
(* The locator on files of single lines, one run more than in LocSpec, so  *)
(* that the binary search can leave low on the first byte of a blank line  *)
(* (a newline byte) or of a record, with a record after it.                *)
(***************************************************************************)
OffsetRuns == {r \in RunChoices : r.n = 1}

OffsetFiles ==
  {[runs |-> rs, nl |-> TRUE] :
     rs \in UNION {[1..m -> OffsetRuns] : m \in 1..(MaxRuns + 1)}}

OffsetInit ==
  /\ file \in OffsetFiles
  /\ target \in Targets
  /\ low = 0
  /\ high = Size(file)
  /\ pc = "bs"
  /\ res = NotFound(0)
  /\ iterations = 0
  /\ cache = NoCache
  /\ last = NoReq
  /\ now = 0
  /\ TailIdle
  /\ HttpIdle
  /\ CallIdle
  /\ FnIdle

OffsetSpec == OffsetInit /\ [][LocNext]_vars

\* C19: when the locator returns a non-empty firstLine, the offset it returns
\* is the byte at which that line starts: the line read from the offset up to
\* the next newline is firstLine, a strict record with time >= target.
C19_OffsetIsLineStart ==
  (pc = "done" /\ res.found) =>
    /\ res.offset = res.pos
    /\ LET ln == LineAt(file, res.offset)
       IN /\ ln.start = res.offset
          /\ ln.kind = "rec"
          /\ ln.time >= target
          /\ [kind |-> ln.kind, time |-> ln.time, len |-> ln.len] = res.line


\* C20: a request without limit is answered by /api/logs and /api/logs/raw
\* with at most 1000 entries.
C20_DefaultLimit ==
  req.filter.limit = None =>
    \A route \in {"/api/logs", "/api/logs/raw"} :
      (resp[route].done /\ resp[route].status = 200)
        => /\ CountOf(resp[route].logs) <= DefaultLimit
           /\ resp[route].count <= DefaultLimit


(***************************************************************************)
(* What the claims about the binary-search loop speak of.                  *)
(***************************************************************************)
\* Every strict record that starts before byte p is older than tgt.
OlderBefore(F, tgt, p) ==
  \A i \in RecRuns(F) : RunBase(F.runs, i) < p => F.runs[i].time < tgt

\* No branch has moved low past the first strict record with time >= target.
C21_LowHalf ==
  (pc \in {"bs", "done"} /\ Sorted(file)) => OlderBefore(file, target, low)

\* No branch has moved high to or below the start of the first strict record
\* with time >= target.
C21_HighHalf ==
  (pc \in {"bs", "done"} /\ Sorted(file) /\ FirstMatchPos(file, target) # -1)
    => FirstMatchPos(file, target) < high

\* C21: at the start of every iteration of the binary-search loop and when it
\* exits, on a file in time order, every strict record that starts before low
\* is older than the target, and the first strict record with time >= target,
\* if there is one, starts in [low, high).
C21_LoopInvariant ==
  (pc \in {"bs", "done"} /\ Sorted(file)) =>
    /\ OlderBefore(file, target, low)
    /\ FirstMatchPos(file, target) # -1
         => (low <= FirstMatchPos(file, target)
               /\ FirstMatchPos(file, target) < high)


\* An iteration of the loop makes high - low smaller.
Decreases == iterations' # iterations => (high' - low' < high - low)

\* The number of times that k can be halved before it is no more than
\* BsWindow.
RECURSIVE Halvings(_)
Halvings(k) == IF k <= BsWindow THEN 0 ELSE 1 + Halvings((k + 1) \div 2)

\* C22: every iteration of the binary-search loop strictly decreases
\* high - low, so that the loop ends after no more iterations than the size
\* of the file can be halved down to the window, and the call returns.
C22_Terminates ==
  /\ [][Decreases]_vars
  /\ [](iterations <= Halvings(Size(file)))

\* The locator has returned after iterations on a file whose last line is
\* longer than the scan window and has no newline after it.
C22_Witness ==
  /\ pc = "done" /\ iterations >= 2
  /\ ~file.nl /\ file.runs[Len(file.runs)].len > ScanWindow
  /\ \E i \in 1..Len(file.runs) : file.runs[i].kind = "junk"

(***************************************************************************)
(* The chunk loop of streamLogs on its own: one call for a file, a start   *)
(* offset, a filter and a chunk size.                                      *)
(***************************************************************************)
\* Start offsets: the start of the file, the middle of a line and the start
\* of the second line behind a short line.
StartOffsets == {0, 100, 151}

ChunkFiles == Files(MaxRuns - 1)

ChunkInit ==
  /\ file \in ChunkFiles
  /\ cache = NoCache
  /\ last = NoReq
  /\ LocIdle
  /\ CallIdle
  /\ FnIdle
  /\ now = 0
  /\ TailIdle
  /\ HttpIdle

\* The chunk loop and the remaining buffer, from reader.read() to the
\* release of the reader.
StreamChunks ==
  /\ ~last.done
  /\ \E filter \in Filters, cs \in ChunkSizes,
        s0 \in {x \in StartOffsets : x <= Size(file)} :
       \E r \in {StreamRun(file, s0, cs, filter)} :
          last' = [filter |-> filter, startOffset |-> s0, cacheHit |-> FALSE,
                   search |-> FALSE, emitted |-> r.emitted, done |-> TRUE,
                   cs |-> cs, read |-> r.read, past |-> r.past,
                   count |-> r.count]
  /\ UNCHANGED <<file, cache, locVars, callVars, fnVars, now, tailVars,
                 httpVars>>

ChunkNext == StreamChunks

ChunkSpec == ChunkInit /\ [][ChunkNext]_vars

\* C23: when the filter has an upper time bound, the call reads no chunk
\* after the one in which it met a strict record later than the bound.
C23_StopsAtTo ==
  (last.done /\ last.filter.to # None /\ last.past # None)
    => last.read = ChunkEnd(file, last.startOffset, last.cs, last.past)

\* The newline byte of the last record of a sequence of segments.
LastEmittedNl(segs) ==
  LET g == segs[Len(segs)] IN g.pos + g.n * (g.len + 1) - 1

\* C24: a call with limit L passes no more than L records to the sink, and
\* once count has reached L it reads no chunk after the one that holds the
\* last record passed.
C24_LimitRespected ==
  (last.done /\ last.filter.limit # None) =>
    /\ CountOf(last.emitted) <= last.filter.limit
    /\ last.count >= last.filter.limit
         => last.read = ChunkEnd(file, last.startOffset, last.cs,
                                 LastEmittedNl(last.emitted))

\* A call with a limit has stopped before the end of the file.
C24_Witness ==
  /\ last.done /\ last.filter.limit # None
  /\ CountOf(last.emitted) = last.filter.limit
  /\ last.read < Size(file)

\* The only record passed to the sink of a call with a limit is the last
\* line of the file, which has no newline.
C24_WitnessFinalLine ==
  /\ last.done /\ last.filter.limit # None /\ ~file.nl
  /\ CountOf(last.emitted) = last.filter.limit
  /\ last.emitted[Len(last.emitted)].pos + last.emitted[Len(last.emitted)].len
       = Size(file)

\* The strict records of the runs i.. of F that start at byte s0 or after it
\* and pass the filter, in byte order, appended to acc.
RECURSIVE FilteredRuns(_, _, _, _, _)
FilteredRuns(F, i, s0, filter, acc) ==
  IF i > Len(F.runs) THEN acc
  ELSE LET r == F.runs[i]
           base == RunBase(F.runs, i)
           before == IF s0 <= base THEN 0
                     ELSE Min(r.n, (s0 - base + r.len) \div (r.len + 1))
       IN IF r.kind = "rec" /\ before < r.n /\ filterLog(EntryOf(r), filter)
            THEN FilteredRuns(F, i + 1, s0, filter,
                   Emit(acc, base + before * (r.len + 1), r, r.n - before))
            ELSE FilteredRuns(F, i + 1, s0, filter, acc)

\* The first filter.limit of them.
FilteredFrom(F, s0, filter) ==
  LET all == FilteredRuns(F, 1, s0, filter, <<>>)
  IN IF filter.limit = None THEN all ELSE TakeN(all, filter.limit)

\* C25: whatever the sizes of the chunks, the records passed to the sink are
\* the strict records from the start offset on that pass the filter, in
\* byte order and once each, up to the limit.
C25_ChunkingIndependent ==
  last.done =>
    /\ last.emitted = FilteredFrom(file, last.startOffset, last.filter)
    /\ \A cs \in ChunkSizes :
         last.emitted = StreamFrom(file, last.startOffset, cs, last.filter)

\* The half of it about the sizes of the chunks alone.
C25_SameForAllChunkings ==
  last.done =>
    \A cs \in ChunkSizes :
      last.emitted = StreamFrom(file, last.startOffset, cs, last.filter)

\* The same for the files whose records are in time order.
C25_IndependentWhenSorted ==
  (last.done /\ Sorted(file))
    => last.emitted = FilteredFrom(file, last.startOffset, last.filter)

\* The conditions of a hit for a request with the filter, on the slot c
\* and the file F as the request finds them.
HitConditions(F, c, filter) ==
  /\ filter.from # None
  /\ c # NoCache
  /\ Size(F) >= c.fileSize
  /\ 0 <= filter.from - c.fromTimestamp
  /\ filter.from - c.fromTimestamp < CacheWindow
  /\ LineText(PieceAt(F, c.byteOffset, Size(F))) = c.validationLine

\* A call of streamLogs hits the cache exactly under the conditions, and
\* then starts at the offset of the slot without a search.
CacheUse ==
  (~last.done /\ last'.done) =>
    /\ last'.cacheHit <=> HitConditions(file, cache, last'.filter)
    /\ last'.cacheHit =>
         (last'.startOffset = cache.byteOffset /\ ~last'.search)
    /\ (~last'.cacheHit /\ ~last'.search) => last'.startOffset = 0

MissRenewsSlot ==
  (~last.done /\ last'.done /\ last'.filter.from # None /\ ~last'.cacheHit)
    => \/ cache' = NoCache
       \/ /\ last'.search
          /\ cache'.fromTimestamp = last'.filter.from
          /\ cache'.byteOffset = last'.startOffset
          /\ cache'.fileSize = Size(file)

\* C27: a request with a from bound that does not hit the cache leaves the
\* slot empty or filled with the entry that it computed itself, never with
\* an older entry.
C27_MissRenewsSlot == [][MissRenewsSlot]_vars

(***************************************************************************)
(* Calls of streamLogs under way at the same time.  A call gives way to    *)
(* the others where it awaits: at the read of the validation chunk and at  *)
(* the locator.  The file may be replaced by one that is no shorter, which *)
(* the test of the size does not see.                                      *)
(***************************************************************************)
CacheRuns == {r \in StreamRuns : r.n > 1 /\ r.kind = "rec"}

CacheFiles ==
  {[runs |-> rs, nl |-> TRUE] :
     rs \in UNION {[1..m -> CacheRuns] : m \in 1..(MaxRuns - 1)}}

CacheInit ==
  /\ file \in CacheFiles
  /\ cache = NoCache
  /\ last = NoReq
  /\ LocIdle
  /\ CallIdle
  /\ FnIdle
  /\ now = 0
  /\ TailIdle
  /\ HttpIdle

\* From the stat of the file to the first await behind it: the test of the
\* slot and the start of the read of the validation chunk, or the start of
\* the locator.
StreamStart(i) ==
  /\ streams[i].pc = "idle"
  /\ \E fromDate \in Targets :
       LET fileSize == Size(file)
           checked == /\ cache # NoCache
                      /\ cache.fileSize <= fileSize
                      /\ isCacheValidForDate(cache, fromDate)
           s == [NoStream EXCEPT !.from = fromDate, !.fileSize = fileSize]
       IN streams' = [streams EXCEPT ![i] =
            IF checked
              THEN [s EXCEPT !.pc = "validate", !.readAt = cache.byteOffset,
                             !.readEnd = cache.byteOffset
                                           + cache.validationLine.len + 100]
            ELSE IF fileSize > LocatorThreshold THEN [s EXCEPT !.pc = "search"]
            ELSE [s EXCEPT !.pc = "stream"]]
  /\ UNCHANGED <<file, cache, last, locVars, running, returned, fnVars, now,
                 tailVars, httpVars>>

\* The validation chunk has been read: the comparison with the slot.
StreamValidate(i) ==
  /\ streams[i].pc = "validate"
  /\ LET s == streams[i]
         firstLine == IF s.readAt >= Size(file) THEN NoLine
                      ELSE LineText(PieceAt(file, s.readAt,
                                            Min(s.readEnd, Size(file))))
     IN IF cache = NoCache
          THEN /\ streams' = [streams EXCEPT ![i].pc = "TypeError"]
               /\ UNCHANGED cache
        ELSE IF firstLine = cache.validationLine
          THEN /\ streams' = [streams EXCEPT ![i].pc = "stream",
                                             ![i].startOffset = cache.byteOffset,
                                             ![i].cacheHit = TRUE]
               /\ UNCHANGED cache
        ELSE /\ cache' = NoCache
             /\ streams' = [streams EXCEPT ![i].pc =
                              IF s.fileSize > LocatorThreshold THEN "search"
                              ELSE "stream"]
  /\ UNCHANGED <<file, last, locVars, running, returned, fnVars, now, tailVars,
                 httpVars>>

\* The locator has returned: the start offset and the update of the slot.
StreamSearch(i) ==
  /\ streams[i].pc = "search"
  /\ LET s == streams[i]
     IN \E r \in {ConfirmScan(file, s.from,
                              BsLoop(file, s.from, 0, s.fileSize))} :
          /\ streams' = [streams EXCEPT ![i].pc = "stream",
                                        ![i].startOffset = r.offset]
          /\ cache' = IF r.found
                        THEN [fromTimestamp |-> s.from, byteOffset |-> r.offset,
                              validationLine |-> r.line, fileSize |-> s.fileSize]
                        ELSE cache
  /\ UNCHANGED <<file, last, locVars, running, returned, fnVars, now, tailVars,
                 httpVars>>

\* The call returns, or its promise is rejected.
StreamEnd(i) ==
  /\ streams[i].pc \in {"stream", "TypeError"}
  /\ streams' = [streams EXCEPT ![i] = NoStream]
  /\ UNCHANGED <<file, cache, last, locVars, running, returned, fnVars, now,
                 tailVars, httpVars>>

\* The file is replaced by another that is at least as long.
FileReplaced ==
  /\ \E F \in CacheFiles : F # file /\ Size(F) >= Size(file) /\ file' = F
  /\ UNCHANGED <<cache, last, locVars, callVars, fnVars, now, tailVars,
                 httpVars>>

CacheNext ==
  \/ \E i \in 1..MaxStreams :
       StreamStart(i) \/ StreamValidate(i) \/ StreamSearch(i) \/ StreamEnd(i)
  \/ FileReplaced

CacheSpec == CacheInit /\ [][CacheNext]_vars

\* C28: however the calls of streamLogs are interleaved, none of them reads
\* the fields of a slot that another has emptied since it tested the slot,
\* and a call that hits the cache starts at the offset at which it read
\* the validation line.
C28_CacheAtomic ==
  \A i \in 1..MaxStreams :
    /\ streams[i].pc # "TypeError"
    /\ streams[i].cacheHit => streams[i].startOffset = streams[i].readAt

\* The first half: no call reads the fields of an emptied slot.
C28_NoEmptiedSlotRead == \A i \in 1..MaxStreams : streams[i].pc # "TypeError"

\* The second half: a hit starts where the validation line was read.
C28_SameEntry ==
  \A i \in 1..MaxStreams :
    streams[i].cacheHit => streams[i].startOffset = streams[i].readAt

\* C29: everything that a subscription passes to onEntry is a strict record
\* of the file that passes the filter; a line that is not one is never
\* passed on as a record.
C29_TailDeliversStrictOnly ==
  \A k \in 1..Len(delivered) :
    /\ delivered[k].kind = "rec"
    /\ filterLog(EntryOf(delivered[k]), tfilter)

\* The lines appended since the subscription, while the file has not been
\* truncated.
AppendedLines ==
  SubSeq(file.runs, Len(file.runs) - hist.appends + 1, Len(file.runs))

\* The entry d is what parseLogLine makes of the line r.
EntryOfLine(d, r) ==
  /\ d.len = r.len
  /\ \/ d.kind = "rec" /\ r.kind = "rec" /\ d.time = r.time
     \/ d.kind = "raw" /\ r.kind = "junk"

\* The entries ds are made of some of the lines rs, each of one line, in
\* the order of the lines.
RECURSIVE InFileOrder(_, _)
InFileOrder(ds, rs) ==
  IF ds = <<>> THEN TRUE
  ELSE IF rs = <<>> THEN FALSE
  ELSE \/ EntryOfLine(Head(ds), Head(rs)) /\ InFileOrder(Tail(ds), Tail(rs))
       \/ InFileOrder(ds, Tail(rs))

\* C30: however the calls of readNewContent of a subscription overlap, each
\* line appended since the subscription is passed to onEntry once at most,
\* and the entries are passed in the order of the lines in the file.
C30_TailOnceInOrder ==
  hist.rot = 0 => InFileOrder(delivered, AppendedLines)

(***************************************************************************)
(* tailLogs from its call on: startWatching() awaits init() and the import *)
(* of node:fs before it registers the watcher, and the cleanup function    *)
(* may be called at any of these points.                                   *)
(***************************************************************************)
StartFiles ==
  {[runs |-> <<r>>, nl |-> TRUE] : r \in {x \in TailLines : x.len = 10}}

\* tailLogs has returned the cleanup function; startWatching() is at
\* await init().
StartInit ==
  /\ file \in StartFiles
  /\ tfilter = NoFilter
  /\ subs = NoSubs
  /\ watcher = "init"
  /\ now = Tick
  /\ lastSize = 0
  /\ buffer = <<>>
  /\ aborted = FALSE
  /\ calls = [i \in 1..MaxCalls |-> NoCall]
  /\ events = 0
  /\ delivered = <<>>
  /\ hist = NoHist
  /\ cache = NoCache /\ last = NoReq /\ LocIdle
  /\ CallIdle
  /\ FnIdle
  /\ HttpIdle

\* init(): lastSize = stat.size
TailInitSize ==
  /\ watcher = "init"
  /\ lastSize' = Size(file)
  /\ watcher' = "import"
  /\ UNCHANGED <<httpVars, file, locVars, callVars, fnVars, cache, last, now,
                 tfilter, buffer, aborted, calls, events, delivered, hist,
                 subs>>

\* watcher = fs.watch(LOG_FILE_PATH, ...)
TailWatch ==
  /\ watcher = "import"
  /\ watcher' = "open"
  /\ UNCHANGED <<httpVars, file, locVars, callVars, fnVars, cache, last, now,
                 tfilter, lastSize, buffer, aborted, calls, events, delivered,
                 hist,
                 subs>>

StartNext == TailInitSize \/ TailWatch \/ TailNext

StartSpec == StartInit /\ [][StartNext]_vars

\* Once the cleanup function has been called, nothing is passed to onEntry.
C31_NoDeliveryAfterCancel == [][aborted => delivered' = delivered]_vars

\* Once the cleanup function has been called, the watcher is not open.
C31_NoWatcherAfterCancel == aborted => watcher # "open"

\* C31: once the cleanup function of a subscription has been called,
\* whether before the watcher is registered, after it, or during a read,
\* no entry is passed to onEntry and no watcher of the subscription is open.
C31_CancelStopsTailer ==
  /\ [][aborted => delivered' = delivered]_vars
  /\ [](aborted => watcher # "open")

(***************************************************************************)
(* A subscription whose change events are handled one at a time, on a file *)
(* that is not truncated and to which the logger writes a line in pieces.  *)
(***************************************************************************)
\* How many bytes of a line may be left to write after a piece of it: the
\* newline alone, the second half of the line with the newline, or all that
\* follows the first byte of the line's two-byte character.
Pendings(r) ==
  {0, 1, r.len \div 2 + 1} \cup (IF r.len > MbAt + 1 THEN {r.len - MbAt} ELSE {})

CarryInit ==
  /\ file \in TailFiles
  /\ tfilter \in TailFilters
  /\ subs = NoSubs
  /\ watcher = "open"
  /\ now \in {Tick, (MaxTime + 1) * Tick}
  /\ lastSize = Size(file)
  /\ buffer = <<>>
  /\ aborted = FALSE
  /\ calls = [i \in 1..MaxCalls |-> NoCall]
  /\ events = 0
  /\ delivered = <<>>
  /\ hist = NoHist
  /\ cache = NoCache /\ last = NoReq /\ LocIdle
  /\ CallIdle
  /\ FnIdle
  /\ HttpIdle

\* The logger writes a line, or the first piece of one.
CarryAppend ==
  /\ hist.pending = 0
  /\ hist.appends < MaxAppends
  /\ \E r \in TailLines :
       \E k \in Pendings(r) :
         /\ file' = [file EXCEPT !.runs = Append(@, r)]
         /\ hist' = [hist EXCEPT !.appends = @ + 1, !.pending = k]
  /\ UNCHANGED <<httpVars, locVars, callVars, fnVars, cache, last, now,
                 tfilter, watcher, lastSize, buffer, aborted, calls, events,
                 delivered,
                 subs>>

\* The logger writes the next piece of the line.
CarryWriteMore ==
  /\ hist.pending > 0
  /\ \E k \in {0, 1} :
       /\ k < hist.pending
       /\ hist' = [hist EXCEPT !.pending = k]
  /\ UNCHANGED <<httpVars, file, locVars, callVars, fnVars, cache, last, now,
                 tfilter, watcher, lastSize, buffer, aborted, calls, events,
                 delivered,
                 subs>>

\* A change event, handled before the next one: readNewContent from its
\* first line to its last.
CarryChange ==
  /\ ~aborted
  /\ \E currentSize \in {Size(file) - hist.pending} :
       /\ currentSize > lastSize
       /\ LET lines == BufferLines(buffer,
                                   SplitFrom(file, lastSize, currentSize))
          IN /\ delivered' = DeliverLines(lines, 1, tfilter, now, delivered)
             /\ buffer' = PopBuffer(lines)
             /\ hist' = [hist EXCEPT !.carried =
                           IF PopBuffer(lines) # <<>> THEN @ + 1 ELSE @]
       /\ lastSize' = currentSize
  /\ UNCHANGED <<httpVars, file, locVars, callVars, fnVars, cache, last, now,
                 tfilter, watcher, aborted, calls, events,
                 subs>>

CarryNext == CarryAppend \/ CarryWriteMore \/ CarryChange

CarrySpec == CarryInit /\ [][CarryNext]_vars

\* The entries of the lines rs whose newline lies before byte b, the first
\* of the lines starting at byte q, that pass the filter.
RECURSIVE EntriesBefore(_, _, _, _, _)
EntriesBefore(rs, q, b, filter, clock) ==
  IF rs = <<>> \/ q + Head(rs).len >= b THEN <<>>
  ELSE LET e == parseLogLine(LineText(Head(rs)), clock)
           rest == EntriesBefore(Tail(rs), q + Head(rs).len + 1, b, filter,
                                 clock)
       IN IF e.ok /\ filterLog(e.entry, filter) THEN <<e.text>> \o rest
          ELSE rest

\* Where the line that holds byte b - 1 of the lines rs starts, the first
\* of the lines starting at byte q; b when byte b - 1 is a newline.
RECURSIVE OpenLineStart(_, _, _)
OpenLineStart(rs, q, b) ==
  IF rs = <<>> \/ q >= b THEN b
  ELSE IF q + Head(rs).len >= b THEN q
  ELSE OpenLineStart(Tail(rs), q + Head(rs).len + 1, b)

\* C32: with the change events handled one at a time and no truncation, the
\* entries passed to onEntry are those of the appended lines whose newline
\* has been read, each once and whole, in order, and the buffer holds the
\* bytes read behind the last newline.
C32_CarryKeepsLinesWhole ==
  LET base == Size(file) - RunBase(AppendedLines, Len(AppendedLines) + 1)
  IN /\ delivered = EntriesBefore(AppendedLines, base, lastSize, tfilter, now)
     /\ FragBytes(buffer) = lastSize - OpenLineStart(AppendedLines, base, lastSize)
     /\ \A i \in 1..Len(buffer) : ~buffer[i].torn

\* The same while no slice was cut inside a character.
C32_WholeUnlessTorn ==
  (/\ \A i \in 1..Len(delivered) : delivered[i].kind # "torn"
   /\ \A i \in 1..Len(buffer) : ~buffer[i].torn)
  => C32_CarryKeepsLinesWhole

\* A record that was written in three pieces, each read by a call of its
\* own, has been passed to onEntry.
C32_Witness ==
  /\ hist.carried = 2
  /\ hist.appends = 1
  /\ buffer = <<>>
  /\ Len(delivered) = 1
  /\ delivered[1].kind = "rec"

(***************************************************************************)
(* A live-stream connection from start() on: the historical read, the      *)
(* start of the tailer and its change events, on a file the logger appends *)
(* whole lines to at any moment.                                           *)
(***************************************************************************)
LiveLines == {r \in TailLines : r.kind = "rec"}

LiveFiles ==
  {[runs |-> rs, nl |-> TRUE] : rs \in UNION {[1..m -> LiveLines] : m \in 0..1}}

\* The query of a live stream: no limit.
LiveQueries ==
  {q \in Filters : q.limit = None /\ q.to = None
                   /\ q.from \in {None, MaxTime * Tick}}

LiveInit ==
  /\ file \in LiveFiles
  /\ cache = NoCache
  /\ last = NoReq
  /\ LocIdle
  /\ CallIdle
  /\ FnIdle
  /\ now = MaxTime * Tick
  /\ TailIdle
  /\ PASSWORD = Secret
  /\ page = NoPage /\ hook = NoHook
  /\ req \in [pwd : {Secret}, filter : LiveQueries, offset : {None}]
  /\ resp = [e \in Routes |-> NoResp]
  /\ conn = [NoConn EXCEPT !.phase = "start"]
  /\ out = <<>>
  /\ collected = <<>>

\* The logger appends one line; the watcher, once registered, gets a
\* change event.
LiveAppend ==
  /\ hist.appends < MaxAppends
  /\ \E r \in LiveLines : file' = [file EXCEPT !.runs = Append(@, r)]
  /\ hist' = [hist EXCEPT !.appends = @ + 1]
  /\ events' = IF watcher = "open" THEN Min(events + 1, MaxEvents) ELSE events
  /\ UNCHANGED <<httpVars, locVars, callVars, fnVars, cache, last, now,
                 tfilter, watcher, lastSize, buffer, aborted, calls,
                 delivered,
                 subs>>

\* enqueue historical-end; cleanup = tailLogs(filter, onEntry, onError):
\* startWatching() runs up to the first await of init().
LiveAfterHistorical ==
  /\ conn.phase = "streamed"
  /\ ~conn.cancelled
  /\ parseFilter(req.filter).limit = None
  /\ out' = Append(out, HistoricalEnd(conn.historicalCount))
  /\ conn' = [conn EXCEPT !.phase = "tailing", !.cleanup = TRUE]
  /\ tfilter' = parseFilter(req.filter)
  /\ watcher' = "init"
  /\ UNCHANGED <<file, locVars, callVars, fnVars, cache, last, now, page, hook, PASSWORD,
                 req, resp, collected, lastSize, buffer, aborted, calls,
                 events, delivered, hist,
                 subs>>

\* onError of the connection: () => { controller.close(); }.  close() on a
\* closed controller throws and leaves the stream as it is.
OnErrorClose(evs) ==
  IF \E i \in 1..Len(evs) : evs[i].type = "close" THEN evs
  ELSE Append(evs, CloseMark)

\* A change event: readNewContent() from its first line to its last, the
\* entries passed to the connection's onEntry, which enqueues them.  When
\* the controller is closed enqueue throws inside the first onEntry: the
\* catch block calls onError, buffer is already set and lastSize is not.
LiveChange ==
  /\ watcher = "open"
  /\ events > 0
  /\ ~aborted
  /\ events' = events - 1
  /\ \E currentSize \in {Size(file)} :
       IF currentSize > lastSize
         THEN LET lines == BufferLines(buffer,
                             SplitFrom(file, lastSize, currentSize))
                  got == DeliverLines(lines, 1, tfilter, now, <<>>)
              IN IF conn.phase = "closed" /\ got # <<>>
                   THEN /\ delivered' = Append(delivered, got[1])
                        /\ out' = OnErrorClose(out)
                        /\ buffer' = PopBuffer(lines)
                        /\ lastSize' = lastSize
                        /\ hist' = [hist EXCEPT !.errors = @ + 1]
                   ELSE /\ delivered' = delivered \o got
                        /\ out' = out \o [i \in 1..Len(got) |->
                                     [type |-> "data", src |-> "tail", n |-> 1,
                                      pos |-> 0, len |-> got[i].len,
                                      time |-> got[i].time]]
                        /\ buffer' = PopBuffer(lines)
                        /\ lastSize' = currentSize
                        /\ hist' = hist
         ELSE UNCHANGED <<delivered, out, buffer, lastSize, hist,
                 subs>>
  /\ UNCHANGED <<file, locVars, callVars, fnVars, cache, last, now, page, hook,
                 PASSWORD, req, resp, conn, collected, tfilter, watcher,
                 aborted, calls,
                 subs>>

\* A change event whose read fails (exists, stat or text rejects): the
\* catch block calls onError, and nothing else changes.
LiveReadFails ==
  /\ watcher = "open"
  /\ events > 0
  /\ ~aborted
  /\ hist.errors < MaxErrors
  /\ events' = events - 1
  /\ hist' = [hist EXCEPT !.errors = @ + 1]
  /\ out' = OnErrorClose(out)
  /\ conn' = [conn EXCEPT !.phase = "closed"]
  /\ UNCHANGED <<file, locVars, callVars, fnVars, cache, last, now, page, hook,
                 PASSWORD, req, resp, collected, tfilter, watcher, lastSize,
                 buffer, aborted, calls, delivered,
                 subs>>

\* The watcher emits 'error': watcher.on('error', onError).
LiveWatcherError ==
  /\ watcher = "open"
  /\ hist.errors < MaxErrors
  /\ hist' = [hist EXCEPT !.errors = @ + 1]
  /\ out' = OnErrorClose(out)
  /\ conn' = [conn EXCEPT !.phase = "closed"]
  /\ UNCHANGED <<file, locVars, callVars, fnVars, cache, last, now, page, hook,
                 PASSWORD, req, resp, collected, tfilter, watcher, lastSize,
                 buffer, aborted, calls, events, delivered,
                 subs>>

LiveNext ==
  \/ SseHistorical \/ LiveAfterHistorical \/ TailInitSize \/ TailWatch
  \/ LiveAppend \/ LiveChange \/ LiveReadFails \/ LiveWatcherError

LiveSpec == LiveInit /\ [][LiveNext]_vars

\* How many data events of out carry the line r.
RECURSIVE SentCount(_, _)
SentCount(evs, r) ==
  IF evs = <<>> THEN 0
  ELSE (IF /\ Head(evs).type = "data"
           /\ Head(evs).time = r.time /\ Head(evs).len = r.len
          THEN Head(evs).n ELSE 0) + SentCount(Tail(evs), r)

\* How many lines of the runs rs are the line r.
RECURSIVE LineCount(_, _)
LineCount(rs, r) ==
  IF rs = <<>> THEN 0
  ELSE (IF LineText(Head(rs)) = LineText(r) THEN Head(rs).n ELSE 0)
       + LineCount(Tail(rs), r)

\* C33: on a live stream without a limit, once the tailer has read the file
\* to its end, every record of the file that passes the filter, those
\* appended since the connection opened included, has been enqueued once,
\* in the historical prefix or as a live event.
C33_LiveExactlyOnce ==
  (conn.phase = "tailing" /\ watcher = "open" /\ lastSize = Size(file))
  => \A r \in LiveLines :
       filterLog(EntryOf(r), tfilter)
       => SentCount(out, r) = LineCount(file.runs, r)

\* No record is enqueued twice.
C33_NoDuplicate ==
  \A r \in LiveLines : SentCount(out, r) <= LineCount(file.runs, r)

\* The reader reads at most one chunk beyond the one it was reading when
\* the client went away.
C34_ReaderStops ==
  (conn.cancelAt # None /\ conn.readTo # None)
  => conn.readTo <= conn.cancelAt + conn.chunk

\* The events the controller was given: out without the close.
Enqueued(evs) == SelectSeq(evs, LAMBDA e : e.type # "close")

\* Once cancel() has been called nothing is enqueued.
C34_NoEnqueueAfterCancel ==
  [][conn.cancelled => Enqueued(out') = Enqueued(out)]_vars

\* A connection cancelled before the tailer was attached never gets one.
C34_NoTailerAfterCancel ==
  [][(conn.cancelled /\ ~conn.cleanup) => ~conn'.cleanup]_vars

\* C34: when the client goes away while streamLogs is reading, the reader
\* reads no more than its next chunk, and from the cancel on nothing is
\* enqueued and no tailer is attached.
C34_CancelStopsHistorical ==
  /\ [](conn.cancelAt # None /\ conn.readTo # None
          => conn.readTo <= conn.cancelAt + conn.chunk)
  /\ [][conn.cancelled => Enqueued(out') = Enqueued(out)]_vars
  /\ [][(conn.cancelled /\ ~conn.cleanup) => ~conn'.cleanup]_vars

\* C35: when streamLogs fails on a live-stream request, at its start or at
\* a read, the response is closed, no historical-end has been enqueued and
\* no tailer is attached.
C35_FailureClosesWithoutEnd ==
  conn.failed
  => /\ conn.phase = "closed"
     /\ out # <<>> /\ out[Len(out)] = CloseMark
     /\ \A i \in 1..Len(out) : out[i].type # "historical-end"
     /\ \A i \in 1..(Len(out) - 1) : out[i].type # "close"
     /\ ~conn.cleanup
     /\ watcher = "none"

\* The reader failed at a read, after records had been enqueued.
C35_Witness ==
  /\ conn.failed
  /\ Len(out) > 1
  /\ out[1].type = "data"

(***************************************************************************)
(* GET / of an authenticated client: createAppStream, the first pull of    *)
(* the body, and the background reader that feeds sendLogEntry and         *)
(* sendEnd.  doc is what was written to the controller.                    *)
(***************************************************************************)
Shell == [type |-> "shell", n |-> 0]
FirstLog == [type |-> "first", n |-> 0]
Row == [type |-> "row", n |-> 0]
DocEnd(k) == [type |-> "end", n |-> k]

\* pull(c): controller = c; the shell is written on the first pull.
pull(pg) ==
  [pg EXCEPT !.controller = TRUE, !.shellSent = TRUE,
             !.doc = IF pg.shellSent THEN @ ELSE Append(@, Shell)]

\* sendLogEntry(entry)
sendLogEntry(pg) ==
  IF ~pg.controller THEN pg
  ELSE [pg EXCEPT !.logCount = @ + 1,
                  !.doc = IF pg.logCount = 0 THEN @ \o <<FirstLog, Row>>
                          ELSE Append(@, Row)]

\* sendEnd(logsCount)
sendEnd(pg, logsCount) ==
  IF ~pg.controller THEN pg
  ELSE [pg EXCEPT !.doc = Append(@, DocEnd(logsCount)), !.closed = TRUE]

HtmlFiles ==
  {[runs |-> rs, nl |-> TRUE] : rs \in UNION {[1..m -> TailLines] : m \in 0..2}}

HtmlQueries == {q \in Filters : q.from = None /\ q.to = None}

\* checkAuth has passed; createAppStream has returned and the background
\* function has called streamLogs.
HtmlInit ==
  /\ file \in HtmlFiles
  /\ cache = NoCache
  /\ last = NoReq
  /\ LocIdle
  /\ CallIdle
  /\ FnIdle
  /\ now = MaxTime * Tick
  /\ TailIdle
  /\ PASSWORD = Secret
  /\ req \in [pwd : {Secret}, filter : HtmlQueries, offset : {None}]
  /\ resp = [e \in Routes |-> NoResp]
  /\ conn = NoConn
  /\ out = <<>>
  /\ collected = <<>>
  /\ page = [NoPage EXCEPT !.reader = "start"]
  /\ hook = NoHook

\* The server pulls the body of the response for the first time.
HtmlPull ==
  /\ page.reader # "none"
  /\ ~page.controller
  /\ page' = pull(page)
  /\ UNCHANGED <<file, locVars, callVars, fnVars, cache, last, now, tailVars,
                 PASSWORD, req, resp, conn, out, collected, hook>>

\* streamLogs finds its file and starts to read: todo entries will be
\* passed to the sink.
HtmlOpen ==
  /\ page.reader = "start"
  /\ \E cs \in ChunkSizes :
       \E r \in {streamLogs(file, cache, cs, parseFilter(req.filter))} :
         /\ cache' = r.cache
         /\ page' = [page EXCEPT !.reader = "reading",
                                 !.todo = CountOf(r.emitted)]
  /\ UNCHANGED <<file, locVars, callVars, fnVars, last, now, tailVars,
                 PASSWORD, req, resp, conn, out, collected, hook>>

\* (entry) => { sendLogEntry(entry); count++; }
HtmlEntry ==
  /\ page.reader = "reading"
  /\ page.todo > 0
  /\ page' = [sendLogEntry(page) EXCEPT !.todo = @ - 1, !.count = @ + 1]
  /\ UNCHANGED <<file, locVars, callVars, fnVars, cache, last, now, tailVars,
                 PASSWORD, req, resp, conn, out, collected, hook>>

\* streamLogs returns: sendEnd(count).
HtmlReturn ==
  /\ page.reader = "reading"
  /\ page.todo = 0
  /\ page' = [sendEnd(page, page.count) EXCEPT !.reader = "done"]
  /\ UNCHANGED <<file, locVars, callVars, fnVars, cache, last, now, tailVars,
                 PASSWORD, req, resp, conn, out, collected, hook>>

\* streamLogs throws, before it reads (no path, no file) or at a read:
\* catch { sendEnd(0) }.
HtmlThrow ==
  /\ page.reader \in {"start", "reading"}
  /\ page' = [sendEnd(page, 0) EXCEPT !.reader = "done", !.threw = TRUE]
  /\ UNCHANGED <<file, locVars, callVars, fnVars, cache, last, now, tailVars,
                 PASSWORD, req, resp, conn, out, collected, hook>>

HtmlNext == HtmlPull \/ HtmlOpen \/ HtmlEntry \/ HtmlReturn \/ HtmlThrow

HtmlSpec == HtmlInit /\ [][HtmlNext]_vars

\* How many rows were written.
Rows(doc) == Len(SelectSeq(doc, LAMBDA d : d.type = "row"))

\* C36: once the background reader has finished, by return or by throw, and
\* the body has been pulled, the end of the document has been written and
\* the stream is closed.
C36_DocumentEnds ==
  (page.reader = "done" /\ page.controller)
  => /\ page.closed
     /\ page.doc[Len(page.doc)].type = "end"

\* The same for a reader that finishes after the first pull.
C36_EndsWhenPulledFirst ==
  [][(page.controller /\ page'.reader = "done")
       => page'.closed /\ page'.doc[Len(page'.doc)].type = "end"]_vars

\* The shell is written once, before everything else.
C37_ShellFirst ==
  \A i \in 1..Len(page.doc) : page.doc[i].type = "shell" <=> i = 1

\* C37: in the document the shell comes before any row, one row is written
\* for each record passed to the sink, and the count of the hydration
\* script is the number of rows written.
C37_RowsAndCount ==
  /\ \A i \in 1..Len(page.doc) : page.doc[i].type = "shell" <=> i = 1
  /\ page.closed
     => /\ Rows(page.doc) = page.count
        /\ page.doc[Len(page.doc)] = DocEnd(Rows(page.doc))

\* Once onError has been called the tailer passes nothing to onEntry.
C38_NoDeliveryAfterError == [][hist.errors > 0 => delivered' = delivered]_vars

\* onError is called once at most.
C38_OneError == hist.errors <= 1

\* The controller is closed once at most and nothing follows the close.
C38_ClosedOnceNothingAfter ==
  \A i \in 1..Len(out) : out[i].type = "close" => i = Len(out)

\* C38: once the tailer has called onError it passes no further entry to
\* onEntry and does not call onError again; the controller of the live
\* stream is closed once at most and nothing is enqueued after the close.
C38_ErrorStopsTailer ==
  /\ [][hist.errors > 0 => delivered' = delivered]_vars
  /\ [](hist.errors <= 1)
  /\ [](\A i \in 1..Len(out) : out[i].type = "close" => i = Len(out))

(***************************************************************************)
(* Several subscriptions of tailLogs on one file.  Each call of tailLogs   *)
(* has its own lastSize, buffer, aborted and watcher.  The first one is    *)
(* the subscription of the tail variables, its readNewContent taken one    *)
(* await at a time; subs.b is a second one, there from the start, and      *)
(* subs.c one that is subscribed and cancelled meanwhile: their            *)
(* readNewContent is taken from its first line to its last.                *)
(***************************************************************************)
SubNames == {"b", "c"}

SubsLines == {r \in TailLines : r.len = 10}

SubsInit ==
  /\ file \in StartFiles
  /\ tfilter \in TailFilters
  /\ watcher = "open"
  /\ now = (MaxTime + 1) * Tick
  /\ lastSize = Size(file)
  /\ buffer = <<>>
  /\ aborted = FALSE
  /\ calls = [i \in 1..MaxCalls |-> NoCall]
  /\ events = 0
  /\ delivered = <<>>
  /\ hist = NoHist
  /\ subs = [NoSubs EXCEPT !.b = [NoSub EXCEPT !.watcher = "open",
                                              !.lastSize = Size(file)]]
  /\ cache = NoCache /\ last = NoReq /\ LocIdle
  /\ CallIdle
  /\ FnIdle
  /\ HttpIdle

\* The logger appends one line: every watcher that is open gets a change
\* event.
SubsAppend ==
  /\ hist.appends < MaxAppends
  /\ \E r \in SubsLines : file' = [file EXCEPT !.runs = Append(@, r)]
  /\ hist' = [hist EXCEPT !.appends = @ + 1]
  /\ events' = Min(events + 1, MaxEvents)
  /\ subs' = [k \in SubNames |->
                IF subs[k].watcher = "open"
                  THEN [subs[k] EXCEPT !.events = Min(@ + 1, MaxEvents)]
                  ELSE subs[k]]
  /\ UNCHANGED <<httpVars, locVars, callVars, fnVars, cache, last, now,
                 tfilter, watcher, lastSize, buffer, aborted, calls,
                 delivered>>

\* A change event of the subscription k: readNewContent().
SubChange(k) ==
  /\ subs[k].watcher = "open"
  /\ subs[k].events > 0
  /\ ~subs[k].aborted
  /\ \E currentSize \in {Size(file)} :
       IF currentSize > subs[k].lastSize
         THEN LET lines == BufferLines(subs[k].buffer,
                             SplitFrom(file, subs[k].lastSize, currentSize))
              IN subs' = [subs EXCEPT
                   ![k].events = @ - 1,
                   ![k].delivered = DeliverLines(lines, 1, tfilter, now, @),
                   ![k].buffer = PopBuffer(lines),
                   ![k].lastSize = currentSize]
         ELSE subs' = [subs EXCEPT ![k].events = @ - 1]
  /\ UNCHANGED <<httpVars, file, locVars, callVars, fnVars, cache, last, now,
                 tfilter, watcher, lastSize, buffer, aborted, calls, events,
                 delivered, hist>>

\* tailLogs(filter, onEntry, onError) is called once more: init() and the
\* registration of its watcher.
SubSubscribe ==
  /\ subs.c.watcher = "none"
  /\ subs' = [subs EXCEPT !.c = [NoSub EXCEPT !.watcher = "open",
                                              !.lastSize = Size(file)]]
  /\ UNCHANGED <<httpVars, file, locVars, callVars, fnVars, cache, last, now,
                 tfilter, watcher, lastSize, buffer, aborted, calls, events,
                 delivered, hist>>

\* The cleanup function of that subscription.
SubCancel ==
  /\ subs.c.watcher = "open"
  /\ subs' = [subs EXCEPT !.c.aborted = TRUE, !.c.watcher = "closed"]
  /\ UNCHANGED <<httpVars, file, locVars, callVars, fnVars, cache, last, now,
                 tfilter, watcher, lastSize, buffer, aborted, calls, events,
                 delivered, hist>>

SubsNext ==
  \/ SubsAppend \/ WatchChange \/ TailStat \/ TailCompare \/ TailRead
  \/ TailFinish \/ SubChange("b") \/ SubChange("c") \/ SubSubscribe
  \/ SubCancel

SubsSpec == SubsInit /\ [][SubsNext]_vars

\* Both subscriptions that were there from the start have read the file to
\* its end and have no change event left.
SubsAtRest ==
  /\ Quiescent
  /\ lastSize = Size(file)
  /\ subs.b.events = 0 /\ subs.b.lastSize = Size(file)

\* C39: two subscriptions with the same filter that are there throughout
\* have been passed the same entries once both have read the file to its
\* end, whatever a third one that is subscribed and cancelled meanwhile
\* does.
C39_SameRecords == SubsAtRest => delivered = subs.b.delivered

\* Neither of them misses a line that was appended.
C39_NoneMissed ==
  SubsAtRest
  => LET base == Size(file) - RunBase(AppendedLines, Len(AppendedLines) + 1)
         want == EntriesBefore(AppendedLines, base, Size(file), tfilter, now)
     IN /\ subs.b.delivered = want
        /\ \A i \in 1..Len(want) :
             \E j \in 1..Len(delivered) : delivered[j] = want[i]

(***************************************************************************)
(* The client hook useLogs: the effect that opens the EventSource, its     *)
(* handlers and its cleanup.                                               *)
(***************************************************************************)
MaxMsgs == 3
MaxOpened == 3

\* The effect has run: new EventSource(url).
HookStart(limited, k) ==
  [NoHook EXCEPT !.es = "connecting", !.loading = TRUE, !.hasLimit = limited,
                 !.opened = k]

HookInit ==
  /\ file = [runs |-> <<>>, nl |-> TRUE]
  /\ cache = NoCache
  /\ last = NoReq
  /\ LocIdle
  /\ CallIdle
  /\ FnIdle
  /\ now = MaxTime * Tick
  /\ TailIdle
  /\ PASSWORD = Secret
  /\ page = NoPage
  /\ req = [pwd |-> Secret, filter |-> NoFilter, offset |-> None]
  /\ resp = [e \in Routes |-> NoResp]
  /\ conn = NoConn
  /\ out = <<>>
  /\ collected = <<>>
  /\ \E limited \in BOOLEAN : hook = HookStart(limited, 1)

HookFrame ==
  UNCHANGED <<file, locVars, callVars, fnVars, cache, last, now, tailVars,
              PASSWORD, req, resp, conn, out, collected, page>>

\* eventSource.onopen
HookOpen ==
  /\ hook.es = "connecting"
  /\ hook' = [hook EXCEPT !.es = "open", !.streaming = TRUE]
  /\ HookFrame

\* eventSource.onmessage: a record of the historical prefix, or a live one
\* on a connection without limit.
HookMessage ==
  /\ hook.es = "open"
  /\ hook.logs < MaxMsgs
  /\ hook.hasLimit => ~hook.historicalDone
  /\ hook' = [hook EXCEPT !.logs = @ + 1]
  /\ HookFrame

\* The listener of historical-end.
HookHistoricalEnd ==
  /\ hook.es = "open"
  /\ ~hook.historicalDone
  /\ hook' = [hook EXCEPT !.historicalDone = TRUE, !.loading = FALSE,
                          !.intentionallyClosed = hook.hasLimit]
  /\ HookFrame

\* onerror that reports every error and leaves the EventSource to the
\* browser, which connects again.
HookErrorAlways ==
  /\ hook.es \in {"connecting", "open"}
  /\ hook' = [hook EXCEPT !.streaming = FALSE, !.loading = FALSE,
                          !.error = "Connection lost",
                          !.errors = @ + 1, !.es = "connecting"]
  /\ HookFrame

\* eventSource.onerror: the server closed the connection or it was lost.
HookError ==
  /\ hook.es \in {"connecting", "open"}
  /\ hook' = [hook EXCEPT
       !.streaming = FALSE,
       !.loading = IF ~hook.historicalDone /\ ~hook.intentionallyClosed
                     THEN FALSE ELSE @,
       !.error = IF ~hook.historicalDone /\ ~hook.intentionallyClosed
                   THEN "Connection lost" ELSE @,
       !.errors = @ + 1,
       !.es = "closed"]
  /\ HookFrame

\* The cleanup of the effect (the filter changed or the component went
\* away).
HookCleanup ==
  /\ hook.es \in {"connecting", "open"}
  /\ hook' = [hook EXCEPT !.intentionallyClosed = TRUE, !.es = "closed",
                          !.streaming = FALSE]
  /\ HookFrame

\* The effect runs again for another filter: setLoading(true),
\* setError(null), setLogs([]), new EventSource(url).
HookEffect ==
  /\ hook.es = "closed"
  /\ hook.opened < MaxOpened
  /\ \E limited \in BOOLEAN :
       hook' = [HookStart(limited, hook.opened + 1) EXCEPT
                  !.errors = hook.errors]
  /\ HookFrame

HookNext ==
  \/ HookOpen \/ HookMessage \/ HookHistoricalEnd \/ HookError
  \/ HookCleanup \/ HookEffect

HookSpec == HookInit /\ [][HookNext]_vars

\* C40: when a connection with a limit ends after historical-end, the hook
\* sets no error, loading and streaming are false and the EventSource is
\* closed; 'Connection lost' is only set by an error that comes before
\* historical-end on a connection the client has not closed.
C40_ExpectedCloseIsQuiet ==
  /\ [][(/\ hook.es = "open" /\ hook.hasLimit /\ hook.historicalDone
         /\ hook'.es # "open")
        => /\ hook'.error = ""
           /\ ~hook'.loading /\ ~hook'.streaming
           /\ hook'.es = "closed"]_vars
  /\ [][(hook'.error = "Connection lost" /\ hook.error = "")
        => /\ ~hook.historicalDone
           /\ hook.es \in {"connecting", "open"}
           /\ hook'.errors = hook.errors + 1]_vars

\* A closed EventSource gets nothing more: the records are not appended
\* again.
C40_NoReappend ==
  [][(hook.es = "closed" /\ hook'.opened = hook.opened) => hook' = hook]_vars

\* The server closed a connection with a limit after historical-end and the
\* error event was handled.
C40_Witness ==
  /\ hook.hasLimit /\ hook.historicalDone
  /\ hook.errors = 1
  /\ hook.es = "closed"
  /\ hook.error = ""
  /\ hook.logs = MaxMsgs

\* An error before historical-end was reported.
C40_WitnessLost ==
  /\ hook.error = "Connection lost"
  /\ ~hook.historicalDone

====
